---- MODULE Spec2Model ----
(***************************************************************************)
(* A model of the two-level segregated fit allocator of                    *)
(* src/src/utils/tlsf.rs (struct TLSF<T>, struct BlockHeader<T>).          *)
(*                                                                         *)
(* Machine words are modelled as the set of the positions of their one     *)
(* bits, so that the 32 and 64 bit arithmetic of the source is exact:      *)
(* the word 0b1010 is {1, 3}.  A usize has usize_BITS positions, a u32 has *)
(* 32.  Arithmetic that overflows panics when the build has overflow       *)
(* checks (overflow_checks = TRUE, the debug profile) and wraps otherwise  *)
(* (the release profile); both builds are part of the model.               *)
(*                                                                         *)
(* The second part models the threads of the winit backend of              *)
(* src/src/winit/mod.rs (struct WinitBackend), src/src/winit/worker.rs     *)
(* (fn run, struct WindowChannel) and src/src/winit/window.rs (struct      *)
(* Window, struct SurfaceGuard): the event loop thread and the client      *)
(* threads, each a sequence of steps between which the others may run.     *)
(***************************************************************************)
EXTENDS Integers, Sequences, FiniteSets, TLC

VARIABLES
    usize_BITS,             \* usize::BITS of the build target: 32 or 64
    overflow_checks,        \* TRUE: overflow panics (debug); FALSE: it wraps (release)
    free_first_level_mask,  \* TLSF::free_first_level_mask, a usize
    segregated_lists,       \* TLSF::segregated_lists, one SecondLevel per first level
    header_free_list,       \* TLSF::header_free_list, a pointer to a header or NULL
    header_pool,            \* TLSF::header_pool: the headers of all batches, by address
    page_pool,              \* TLSF::page_pool: the size new_page was given, per page
    handles,                \* the live Allocation values the caller holds
    last,                   \* the last call and what it returned
    history,                \* the calls since construction (see Record)
    peak,                   \* per page, the most allocations of it live at once
    panicked,               \* a call has panicked: the allocator is unusable
    fn_in, fn_out, fn_pc,   \* argument, result and position of a pure-function run
    quit_requested,         \* WinitBackend::quit_requested, an AtomicBool
    events,                 \* the events sent through event_loop_proxy, not yet handled
    next_id,                \* WindowChannelGuarded::next_id
    available_windows,      \* WindowChannelGuarded::available_windows: (id, result) pairs
    client_api_count,       \* the u32 in WinitBackend::client_api_count
    suspended_state,        \* WinitBackend::suspended_state, an AtomicBool
    has_surface,            \* the bool in Window::has_surface, per window
    owner,                  \* per mutex, the set of the threads that hold it: {} or {t}
    waiting,                \* per condvar, the threads blocked in Condvar::wait
    pc,                     \* per thread, the statement it executes next
    local,                  \* per thread, the local variables of its call
    calls,                  \* per thread, the number of calls it has begun
    sent,                   \* every event push_event has sent, in order
    pushed,                 \* every (id, result) WindowChannel::push has pushed, in order
    returned,               \* every (thread, id, result) wait_ready has returned
    guards,                 \* per window, the threads that hold its SurfaceGuard
    suspend_returned        \* event_loop_signal_suspended has returned and
                            \* event_loop_signal_resumed was not called since

vars == <<usize_BITS, overflow_checks, free_first_level_mask, segregated_lists,
          header_free_list, header_pool, page_pool, handles, last, history,
          peak, panicked, fn_in, fn_out, fn_pc, quit_requested, events,
          next_id, available_windows, client_api_count, suspended_state,
          has_surface, owner, waiting, pc, local, calls, sent, pushed,
          returned, guards, suspend_returned>>

tlsf_vars == <<free_first_level_mask, segregated_lists, header_free_list,
               header_pool, page_pool>>

winit_vars == <<quit_requested, events, next_id, available_windows,
                client_api_count, suspended_state, has_surface, owner, waiting,
                pc, local, calls, sent, pushed, returned, guards,
                suspend_returned>>

(***************************************************************************)
(* Program constants                                                       *)
(***************************************************************************)
MISSING_MIN_BLOCKS == 5
SECOND_LEVEL_INDEX == 5
SECOND_LEVEL_COUNT == 32
HEADER_BATCH == 64
U32_BITS == 32

\* const MIN_BLOCK_MASK: usize = (1usize << MISSING_MIN_BLOCKS) - 1
MIN_BLOCK_MASK == 0 .. (MISSING_MIN_BLOCKS - 1)

\* const FREE_BLOCK_FLAG: usize = 0b01, FIRST_FREE_BLOCK_FLAG: usize = 0b10
FREE_BLOCK_FLAG == {0}
FIRST_FREE_BLOCK_FLAG == {1}
\* const BLOCK_SIZE_MASK: usize = !(FREE_BLOCK_FLAG | FIRST_FREE_BLOCK_FLAG)
BLOCK_SIZE_MASK == (0 .. (usize_BITS - 1)) \ (FREE_BLOCK_FLAG \cup FIRST_FREE_BLOCK_FLAG)

(***************************************************************************)
(* Words as sets of bit positions                                          *)
(***************************************************************************)
Max(S) == CHOOSE x \in S : \A y \in S : y <= x
Min(S) == CHOOSE x \in S : \A y \in S : x <= y

\* the word of a natural number below 2^31
Bits(n) == {i \in 0 .. 30 : (n \div (2 ^ i)) % 2 = 1}

\* the number of a word whose one bits are all below position 31
RECURSIVE Val(_)
Val(S) == IF S = {} THEN 0 ELSE LET m == Max(S) IN (2 ^ m) + Val(S \ {m})

\* unsigned comparison of two words
WordLess(S, T) ==
    /\ S # T
    /\ Max((S \ T) \cup (T \ S)) \in T
WordLeq(S, T) == S = T \/ WordLess(S, T)

\* usize::trailing_zeros / usize::leading_zeros
trailing_zeros(S) == IF S = {} THEN usize_BITS ELSE Min(S)
leading_zeros(S) == IF S = {} THEN usize_BITS ELSE usize_BITS - 1 - Max(S)

\* u32::saturating_sub
saturating_sub(a, b) == IF a >= b THEN a - b ELSE 0

\* the carry into every position of a + b + cin
RECURSIVE Carry(_, _, _, _)
Carry(S, T, cin, i) ==
    IF i = 0 THEN cin
    ELSE LET c == Carry(S, T, cin, i - 1)
             a == (i - 1) \in S
             b == (i - 1) \in T
         IN  (a /\ b) \/ (a /\ c) \/ (b /\ c)

SumBits(S, T, cin, w) ==
    {i \in 0 .. (w - 1) :
        LET a == i \in S
            b == i \in T
            c == Carry(S, T, cin, i)
        IN  (a /\ ~b /\ ~c) \/ (~a /\ b /\ ~c) \/ (~a /\ ~b /\ c) \/ (a /\ b /\ c)}

\* the words whose value is below 2^30: their sums and differences are numbers
Small(S) == S \subseteq 0 .. 29

\* a + b on w-bit words: ov is the overflow Rust's checked build panics on
WordAdd(S, T, w) ==
    IF Small(S) /\ Small(T)
    THEN [ov |-> FALSE, v |-> Bits(Val(S) + Val(T))]
    ELSE [ov |-> Carry(S, T, FALSE, w), v |-> SumBits(S, T, FALSE, w)]

\* a - b on w-bit words, as a + !b + 1
WordSub(S, T, w) ==
    IF Small(S) /\ Small(T) /\ WordLeq(T, S)
    THEN [ov |-> FALSE, v |-> Bits(Val(S) - Val(T))]
    ELSE LET nt == (0 .. (w - 1)) \ T
         IN  [ov |-> ~Carry(S, nt, TRUE, w), v |-> SumBits(S, nt, TRUE, w)]

\* the amount of a shift of a w-bit word by the u32 K: a checked build panics on
\* an amount >= w, an unchecked one masks the amount with w - 1
ShiftAmount(K, w) ==
    LET low == 0 .. ((IF w = 32 THEN 5 ELSE 6) - 1)
    IN  [ov |-> ~(K \subseteq low), k |-> Val(K \cap low)]

\* 1 << K
ShlOne(K, w) == LET a == ShiftAmount(K, w) IN [ov |-> a.ov, v |-> {a.k}]

\* x >> K
WordShr(S, K, w) ==
    LET a == ShiftAmount(K, w)
    IN  [ov |-> a.ov, v |-> {i - a.k : i \in {j \in S : j >= a.k}}]

\* x * y where x = 1 << k is a power of two: the product overflows when a one
\* bit of y leaves the word
MulPow2(k, S, w) ==
    [ov |-> \E i \in S : i + k >= w,
     v  |-> {i + k : i \in {j \in S : j + k < w}}]

(***************************************************************************)
(* Size-class mapping                                                      *)
(***************************************************************************)
\* a class (first_level, second_level), or the panic that replaces it:
\* first_level is a number, second_level a u32 word
Class(first_level, second_level) ==
    [panic |-> FALSE, first_level |-> first_level, second_level |-> second_level]
ClassPanic == [panic |-> TRUE, first_level |-> 0, second_level |-> {}]

\* map_request_size from last_bit on
MapLastBit(size, last_bit, bit) ==
    IF overflow_checks /\ bit.ov THEN ClassPanic
    ELSE Class(saturating_sub(last_bit, MISSING_MIN_BLOCKS),
               WordShr(size \ bit.v,
                       Bits(saturating_sub(last_bit, SECOND_LEVEL_INDEX)),
                       usize_BITS).v \cap (0 .. (U32_BITS - 1)))

\* fn map_request_size(size: NonZeroUsize) -> (u32, u32)
map_request_size(size) ==
    MapLastBit(size, usize_BITS - trailing_zeros(size),
               ShlOne(Bits(usize_BITS - trailing_zeros(size)), usize_BITS))

\* map_block_size as it would be without the test size == end_range
MapEndRangeNext(size, r, end_range, next) ==
    IF overflow_checks /\ end_range.ov THEN ClassPanic
    ELSE IF overflow_checks /\ next.ov THEN ClassPanic
    ELSE IF ~(next.v \subseteq 0 .. (SECOND_LEVEL_INDEX - 1))
    THEN Class(r.first_level + 1, {})
    ELSE Class(r.first_level, next.v)

\* map_block_size once end_range is known: next is second_level + 1
MapEndRange(size, r, end_range, next) ==
    IF overflow_checks /\ end_range.ov THEN ClassPanic
    ELSE IF size = end_range.v THEN r
    ELSE IF overflow_checks /\ next.ov THEN ClassPanic
    ELSE IF ~(next.v \subseteq 0 .. (SECOND_LEVEL_INDEX - 1))
    THEN Class(r.first_level + 1, {})
    ELSE Class(r.first_level, next.v)

\* map_block_size once the class (first_level, second_level) of the request is
\* known: high is 1 << (first_level + SECOND_LEVEL_INDEX), low is
\* (1 << first_level) * second_level
MapRange(size, r, high, low) ==
    IF r.panic \/ (overflow_checks /\ (high.ov \/ low.ov)) THEN ClassPanic
    ELSE MapEndRange(size, r, WordAdd(high.v, low.v, usize_BITS),
                     WordAdd(r.second_level, {0}, U32_BITS))

MapRequest(size, r) ==
    MapRange(size, r,
             ShlOne(Bits(r.first_level + SECOND_LEVEL_INDEX), usize_BITS),
             MulPow2(r.first_level, r.second_level, usize_BITS))

\* fn map_block_size(size: NonZeroUsize) -> (u32, u32)
map_block_size(size) == MapRequest(size, map_request_size(size))

\* an Option<u32>, or the panic that replaces it
Some(v) == [panic |-> FALSE, some |-> TRUE, v |-> v]
None == [panic |-> FALSE, some |-> FALSE, v |-> 0]
OptionPanic == [panic |-> TRUE, some |-> FALSE, v |-> 0]

LeadingZerosBelow(mask, bit) ==
    IF overflow_checks /\ bit.ov THEN OptionPanic
    ELSE IF leading_zeros(mask \cap (0 .. (Min(bit.v) - 1))) < 32
    THEN Some(leading_zeros(mask \cap (0 .. (Min(bit.v) - 1))))
    ELSE None

\* fn first_one_after_at(mask: usize, after_at: u32) -> Option<u32>
\* after_at is a u32 word
first_one_after_at(mask, after_at) ==
    LeadingZerosBelow(mask, ShlOne(after_at, usize_BITS))

(***************************************************************************)
(* Pointers.  A header is named by its address, its position in            *)
(* header_pool counted from 1; NULL is the null pointer.  prev_free is a   *)
(* *mut *mut BlockHeader: it points to a pointer slot, which is the head   *)
(* pointer of the header free list, a head pointer in list_headers, or the *)
(* next_free field of a header (the first field of the repr(C) struct).    *)
(***************************************************************************)
NULL == 0
NullSlot == [kind |-> "null", a |-> 0, b |-> 0]
HeaderFreeListSlot == [kind |-> "header_free_list", a |-> 0, b |-> 0]
ListHeadSlot(first_level, second_level) ==
    [kind |-> "list_headers", a |-> first_level, b |-> second_level]
NextFreeSlot(h) == [kind |-> "next_free", a |-> h, b |-> 0]

\* BlockHeader::new()
NewBlockHeader ==
    [next_free |-> NULL, prev_free |-> NullSlot, next_physical |-> NULL,
     prev_physical |-> NULL, pool |-> NULL, size_and_flags |-> {}, base_offset |-> {}]

\* SecondLevel::new()
NewSecondLevel ==
    [free_mask |-> {}, list_headers |-> [s \in 0 .. (SECOND_LEVEL_COUNT - 1) |-> NULL]]

(***************************************************************************)
(* The allocator as a value t, a record of the fields of TLSF<T> and a     *)
(* panic flag, so that an operation is the composition of its steps.       *)
(***************************************************************************)
Self ==
    [free_first_level_mask |-> free_first_level_mask,
     segregated_lists      |-> segregated_lists,
     header_free_list      |-> header_free_list,
     header_pool           |-> header_pool,
     page_pool             |-> page_pool,
     panic                 |-> FALSE]

Panic(t) == [t EXCEPT !.panic = TRUE]

\* *slot
Deref(t, slot) ==
    IF slot.kind = "header_free_list" THEN t.header_free_list
    ELSE IF slot.kind = "list_headers"
    THEN t.segregated_lists[slot.a].list_headers[slot.b]
    ELSE t.header_pool[slot.a].next_free

\* *slot = p; a write through a null prev_free is not modelled as a store
Store(t, slot, p) ==
    IF slot.kind = "header_free_list" THEN [t EXCEPT !.header_free_list = p]
    ELSE IF slot.kind = "list_headers"
    THEN [t EXCEPT !.segregated_lists[slot.a].list_headers[slot.b] = p]
    ELSE IF slot.kind = "next_free"
    THEN [t EXCEPT !.header_pool[slot.a].next_free = p]
    ELSE Panic(t)

\* BlockHeader::get_size, set_size and the flag accessors
get_size(hd) == hd.size_and_flags \cap BLOCK_SIZE_MASK
\* set_size as it would be if it stored the size alone
set_size_alone(hd, size) == [hd EXCEPT !.size_and_flags = size]
set_size(hd, size) ==
    [hd EXCEPT !.size_and_flags = size \cup (hd.size_and_flags \ BLOCK_SIZE_MASK)]
is_free_block(hd) == (hd.size_and_flags \cap FREE_BLOCK_FLAG) # {}
set_free_block_flag(hd) ==
    [hd EXCEPT !.size_and_flags = hd.size_and_flags \cup FREE_BLOCK_FLAG]
\* clear_free_block_flag as it would be if it left the flag as it is
keep_free_block_flag(hd) == hd
clear_free_block_flag(hd) ==
    [hd EXCEPT !.size_and_flags = hd.size_and_flags \ FREE_BLOCK_FLAG]
is_first_free_block(hd) == (hd.size_and_flags \cap FIRST_FREE_BLOCK_FLAG) # {}
set_first_free_block_flag(hd) ==
    [hd EXCEPT !.size_and_flags = hd.size_and_flags \cup FIRST_FREE_BLOCK_FLAG]
clear_first_free_block_flag(hd) ==
    [hd EXCEPT !.size_and_flags = hd.size_and_flags \ FIRST_FREE_BLOCK_FLAG]

\* remove_from_free_list as it would be if it left the prev_free of the
\* successor as it was
remove_from_free_list_unlinked(t, h) ==
    LET self == t.header_pool[h]
        t1   == Store(t, self.prev_free, self.next_free)
        next == self.next_free
    IN  IF next = NULL THEN t1
        ELSE IF is_first_free_block(self)
        THEN [t1 EXCEPT !.header_pool[next] = set_first_free_block_flag(@)]
        ELSE t1

\* remove_from_free_list as it would be if it never passed the first-free flag
\* on
remove_from_free_list_unflagged(t, h) ==
    LET self == t.header_pool[h]
        t1   == Store(t, self.prev_free, self.next_free)
        next == self.next_free
    IN  IF next = NULL THEN t1
        ELSE [t1 EXCEPT !.header_pool[next].prev_free = self.prev_free]

\* unsafe fn remove_from_free_list(&mut self), self = header h
remove_from_free_list(t, h) ==
    LET self == t.header_pool[h]
        t1   == Store(t, self.prev_free, self.next_free)
        next == self.next_free
    IN  IF next = NULL THEN t1
        ELSE LET t2 == [t1 EXCEPT !.header_pool[next].prev_free = self.prev_free]
             IN  IF is_first_free_block(self)
                 THEN [t2 EXCEPT !.header_pool[next] = set_first_free_block_flag(@)]
                 ELSE t2

\* insert_to_free_list_head as it would be if it left the prev_free of the
\* former first member as it was
insert_to_free_list_head_unlinked(t, h, head) ==
    LET t1   == [t EXCEPT !.header_pool[h] = set_first_free_block_flag(@)]
        next == Deref(t1, head)
        t2   == IF next = NULL THEN t1
                ELSE [t1 EXCEPT !.header_pool[next] = clear_first_free_block_flag(@)]
        t3   == [t2 EXCEPT !.header_pool[h].next_free = Deref(t2, head),
                           !.header_pool[h].prev_free = head]
    IN  Store(t3, head, h)

\* insert_to_free_list_head as it would be if it left the first-free flag of
\* the former first member set
insert_to_free_list_head_flagged(t, h, head) ==
    LET t1   == [t EXCEPT !.header_pool[h] = set_first_free_block_flag(@)]
        next == Deref(t1, head)
        t2   == IF next = NULL THEN t1
                ELSE [t1 EXCEPT !.header_pool[next].prev_free = NextFreeSlot(h)]
        t3   == [t2 EXCEPT !.header_pool[h].next_free = Deref(t2, head),
                           !.header_pool[h].prev_free = head]
    IN  Store(t3, head, h)

\* unsafe fn insert_to_free_list_head(&mut self, head), self = header h
insert_to_free_list_head(t, h, head) ==
    LET t1   == [t EXCEPT !.header_pool[h] = set_first_free_block_flag(@)]
        next == Deref(t1, head)
        t2   == IF next = NULL THEN t1
                ELSE [t1 EXCEPT !.header_pool[next] =
                        clear_first_free_block_flag(
                            [@ EXCEPT !.prev_free = NextFreeSlot(h)])]
        t3   == [t2 EXCEPT !.header_pool[h].next_free = Deref(t2, head),
                           !.header_pool[h].prev_free = head]
    IN  Store(t3, head, h)

\* unsafe fn remove_from_physical_list(&mut self)
remove_from_physical_list(t, h) ==
    LET self == t.header_pool[h]
        t1   == IF self.prev_physical = NULL THEN t
                ELSE [t EXCEPT !.header_pool[self.prev_physical].next_physical =
                                    self.next_physical]
    IN  IF self.next_physical = NULL THEN t1
        ELSE [t1 EXCEPT !.header_pool[self.next_physical].prev_physical =
                            self.prev_physical]

\* unsafe fn insert_to_physical_list_after(&mut self, prev)
insert_to_physical_list_after(t, h, prev) ==
    LET next == t.header_pool[prev].next_physical
        t1   == IF next = NULL THEN t
                ELSE [t EXCEPT !.header_pool[next].prev_physical = h]
        t2   == [t1 EXCEPT !.header_pool[h].next_physical =
                                t1.header_pool[prev].next_physical,
                           !.header_pool[h].prev_physical = prev]
    IN  [t2 EXCEPT !.header_pool[prev].next_physical = h]

\* unsafe fn make_new_physical_list(&mut self)
make_new_physical_list(hd) ==
    [hd EXCEPT !.next_physical = NULL, !.prev_physical = NULL]

(***************************************************************************)
(* Header pool                                                             *)
(***************************************************************************)
\* the loop as it would be over pool[1..63], one header short
RECURSIVE ThreadBatchShort(_, _, _)
ThreadBatchShort(t, h, end) ==
    IF h >= end \/ t.panic THEN t
    ELSE ThreadBatchShort(insert_to_free_list_head(t, h, HeaderFreeListSlot), h + 1, end)

\* for header in &mut pool[1..] { header.insert_to_free_list_head(header_free_list) }
RECURSIVE ThreadBatch(_, _, _)
ThreadBatch(t, h, end) ==
    IF h > end \/ t.panic THEN t
    ELSE ThreadBatch(insert_to_free_list_head(t, h, HeaderFreeListSlot), h + 1, end)

\* allocate_block_header as it would be if it left the header it hands out
\* on the header free list
allocate_block_header_listed(t) ==
    IF t.header_free_list # NULL
    THEN [t |-> t, header |-> t.header_free_list]
    ELSE LET base == Len(t.header_pool)
             t1   == [t EXCEPT !.header_pool =
                        @ \o [i \in 1 .. HEADER_BATCH |-> NewBlockHeader]]
         IN  [t |-> ThreadBatch(t1, base + 2, base + HEADER_BATCH),
              header |-> base + 1]

\* unsafe fn allocate_block_header(&mut self) -> NonNull<BlockHeader<T>>
\* the result is the allocator after the call and the header returned
allocate_block_header(t) ==
    IF t.header_free_list # NULL
    THEN [t |-> remove_from_free_list(t, t.header_free_list),
          header |-> t.header_free_list]
    ELSE LET base == Len(t.header_pool)
             t1   == [t EXCEPT !.header_pool =
                        @ \o [i \in 1 .. HEADER_BATCH |-> NewBlockHeader]]
         IN  [t |-> ThreadBatch(t1, base + 2, base + HEADER_BATCH),
              header |-> base + 1]

\* unsafe fn free_block_header(&mut self, header)
free_block_header(t, h) == insert_to_free_list_head(t, h, HeaderFreeListSlot)

(***************************************************************************)
(* Segregated free-list index                                              *)
(***************************************************************************)
\* segregated_lists.get(first_level) is Some
HasFirstLevel(t, first_level) == first_level \in DOMAIN t.segregated_lists

\* take_block after block_header.as_mut().remove_from_free_list(): t is the
\* allocator after the removal
TakeBlockRemoved(t, first_level_index, second_level_index, block_header) ==
    IF t.segregated_lists[first_level_index].list_headers[second_level_index] # NULL
    THEN [t |-> t, header |-> block_header]
    ELSE IF t.segregated_lists[first_level_index].free_mask \ {second_level_index} # {}
    THEN [t |-> [t EXCEPT !.segregated_lists[first_level_index].free_mask =
                            @ \ {second_level_index}],
          header |-> block_header]
    ELSE [t |-> [t EXCEPT !.segregated_lists[first_level_index].free_mask =
                            @ \ {second_level_index},
                          !.free_first_level_mask = @ \ {first_level_index}],
          header |-> block_header]

\* unsafe fn take_block(&mut self, first_level_index: usize, second_level_index: usize)
\* the result is the allocator after the call and Some(header) or None (NULL)
take_block(t, first_level_index, second_level_index) ==
    IF ~HasFirstLevel(t, first_level_index)
       \/ second_level_index >= SECOND_LEVEL_COUNT
    THEN [t |-> Panic(t), header |-> NULL]
    ELSE IF t.segregated_lists[first_level_index].list_headers[second_level_index] = NULL
    THEN [t |-> t, header |-> NULL]
    ELSE TakeBlockRemoved(
             remove_from_free_list(
                 t, t.segregated_lists[first_level_index].list_headers[second_level_index]),
             first_level_index, second_level_index,
             t.segregated_lists[first_level_index].list_headers[second_level_index])

\* return_block_no_merge once the class c of the block is known: bit1 is
\* 1 << first_level (a usize), bit2 is 1 << second_level (a u32)
ReturnToClass(t, block, c, bit1, bit2) ==
    IF overflow_checks /\ bit1.ov THEN Panic(t)
    ELSE IF ~HasFirstLevel(t, c.first_level) THEN Panic(t)      \* get_mut(..).unwrap()
    ELSE IF overflow_checks /\ bit2.ov THEN Panic(t)
    ELSE IF ~(c.second_level \subseteq 0 .. (SECOND_LEVEL_INDEX - 1))
    THEN Panic(t)                                            \* list_headers.get(..).unwrap()
    ELSE insert_to_free_list_head(
             [t EXCEPT !.free_first_level_mask = @ \cup bit1.v,
                       !.segregated_lists[c.first_level].free_mask = @ \cup bit2.v],
             block, ListHeadSlot(c.first_level, Val(c.second_level)))

ReturnSized(t, block, c) ==
    IF c.panic THEN Panic(t)
    ELSE ReturnToClass(t, block, c, ShlOne(Bits(c.first_level), usize_BITS),
                       ShlOne(c.second_level, U32_BITS))

\* unsafe fn return_block_no_merge(&mut self, block)
return_block_no_merge(t, block) ==
    IF get_size(t.header_pool[block]) = {} THEN Panic(t)  \* NonZeroUsize::new(size).unwrap()
    ELSE ReturnSized(t, block, map_block_size(get_size(t.header_pool[block])))

\* the result of find_free_block_index: Some((first_level, second_level)), both
\* numbers, None, or the panic that replaces them
Found(first_level, second_level) ==
    [panic |-> FALSE, some |-> TRUE, first_level |-> first_level,
     second_level |-> second_level]
NotFound == [panic |-> FALSE, some |-> FALSE, first_level |-> 0, second_level |-> 0]
FindPanic == [panic |-> TRUE, some |-> FALSE, first_level |-> 0, second_level |-> 0]

FoundLowest(first_level, low) ==
    IF low.panic \/ ~low.some THEN FindPanic ELSE Found(first_level, low.v)

\* first_one_after_at(segregated_lists.get(first_level).unwrap().free_mask as usize, 0)
\*     .unwrap()
FindLowest(t, first_level) ==
    IF ~HasFirstLevel(t, first_level) THEN FindPanic
    ELSE FoundLowest(first_level,
                     first_one_after_at(t.segregated_lists[first_level].free_mask, {}))

\* the branch first_level == selected_first_level
FindSecond(t, selected_first_level, free_second_level, new_first_level) ==
    IF free_second_level.panic THEN FindPanic
    ELSE IF free_second_level.some THEN Found(selected_first_level, free_second_level.v)
    ELSE IF new_first_level.panic THEN FindPanic
    ELSE IF new_first_level.some THEN FindLowest(t, new_first_level.v)
    ELSE NotFound

\* find_free_block_index after the scan of free_first_level_mask
FindFirst(t, r, first) ==
    IF first.panic THEN FindPanic
    ELSE IF ~first.some THEN NotFound
    ELSE IF r.first_level # first.v THEN FindLowest(t, first.v)
    ELSE IF ~HasFirstLevel(t, first.v) THEN FindPanic
    ELSE FindSecond(t, first.v,
                    first_one_after_at(t.segregated_lists[first.v].free_mask,
                                       r.second_level),
                    first_one_after_at(t.free_first_level_mask, Bits(r.first_level + 1)))

FindRequest(t, r) ==
    IF r.panic THEN FindPanic
    ELSE FindFirst(t, r, first_one_after_at(t.free_first_level_mask, Bits(r.first_level)))

\* fn find_free_block_index(&self, size: NonZeroUsize) -> Option<(u32, u32)>
find_free_block_index(t, size) == FindRequest(t, map_request_size(size))

(***************************************************************************)
(* Core allocator                                                          *)
(***************************************************************************)
\* pub fn new_for_max_size(max_block_size: usize) -> Self
\* the number of SecondLevel entries the constructor creates; a negative count
\* stands for the subtraction that overflows (the constructor does not return)
FirstLevelCount(max_block_size) ==
    (usize_BITS - trailing_zeros(max_block_size)) - MISSING_MIN_BLOCKS

new_for_max_size(max_block_size) ==
    [free_first_level_mask |-> {},
     segregated_lists      |->
         [f \in 0 .. (FirstLevelCount(max_block_size) - 1) |-> NewSecondLevel],
     header_free_list      |-> NULL,
     header_pool           |-> <<>>,
     page_pool             |-> <<>>,
     panic                 |-> FALSE]

\* new_page as it would be without header.make_new_physical_list(): the header
\* keeps the physical links it had when it was last in use
NewPageHeaderKeepsLinks(a, size) ==
    return_block_no_merge(
        [a.t EXCEPT !.header_pool[a.header] =
            [set_size(set_free_block_flag(@), size)
                EXCEPT !.base_offset = {}, !.pool = Len(a.t.page_pool)]],
        a.header)

\* new_page as it would be if the block of the page were not flagged free
NewPageHeaderUnflagged(a, size) ==
    return_block_no_merge(
        [a.t EXCEPT !.header_pool[a.header] =
            [set_size(make_new_physical_list(@), size)
                EXCEPT !.base_offset = {}, !.pool = Len(a.t.page_pool)]],
        a.header)

\* new_page once it has its header: a is the result of allocate_block_header
NewPageHeader(a, size) ==
    return_block_no_merge(
        [a.t EXCEPT !.header_pool[a.header] =
            [set_size(set_free_block_flag(make_new_physical_list(@)), size)
                EXCEPT !.base_offset = {}, !.pool = Len(a.t.page_pool)]],
        a.header)

\* pub unsafe fn new_page(&mut self, page: Box<T>, size: usize)
\* a page is named by its position in page_pool, which keeps the size it was given
new_page(t, size) ==
    NewPageHeader(allocate_block_header([t EXCEPT !.page_pool = Append(@, size)]), size)

\* the result of allocate: the allocator after the call and the header of the
\* allocation, NULL for None
Allocated(t, header) == [t |-> t, allocation |-> header]
AllocatePanic(t) == [t |-> Panic(t), allocation |-> NULL]

AllocateReturned(t0, t, header) ==
    IF t.panic THEN AllocatePanic(t0) ELSE Allocated(t, header)

\* the split as it would be if the new block were given the offset of the
\* block it is split from
AllocateSplitAtBase(t0, a, header, rounded_size, split_size, offset) ==
    IF overflow_checks /\ offset.ov THEN AllocatePanic(t0)
    ELSE AllocateReturned(
             t0,
             return_block_no_merge(
                 insert_to_physical_list_after(
                     [a.t EXCEPT
                        !.header_pool[header] = set_size(@, rounded_size),
                        !.header_pool[a.header] =
                            [set_size(set_free_block_flag(@), split_size)
                               EXCEPT !.base_offset = a.t.header_pool[header].base_offset,
                                      !.pool = a.t.header_pool[header].pool]],
                     a.header, header),
                 a.header),
             header)

\* the split: a is the result of allocate_block_header, offset is
\* header_ref.base_offset + rounded_size
AllocateSplit(t0, a, header, rounded_size, split_size, offset) ==
    IF overflow_checks /\ offset.ov THEN AllocatePanic(t0)
    ELSE AllocateReturned(
             t0,
             return_block_no_merge(
                 insert_to_physical_list_after(
                     [a.t EXCEPT
                        !.header_pool[header] = set_size(@, rounded_size),
                        !.header_pool[a.header] =
                            [set_size(set_free_block_flag(@), split_size)
                               EXCEPT !.base_offset = offset.v,
                                      !.pool = a.t.header_pool[header].pool]],
                     a.header, header),
                 a.header),
             header)

\* allocate as it would be if it served the block it took whole
AllocateRoundedWhole(t0, t, header, rounded_size, diff) ==
    IF overflow_checks /\ diff.ov THEN AllocatePanic(t0)
    ELSE Allocated(t, header)

\* allocate once rounded_size is known: diff is header_ref.get_size() - rounded_size
AllocateRounded(t0, t, header, rounded_size, diff) ==
    IF overflow_checks /\ diff.ov THEN AllocatePanic(t0)
    ELSE IF diff.v = {} THEN Allocated(t, header)
    ELSE AllocateSplit(t0, allocate_block_header(t), header, rounded_size, diff.v,
                       WordAdd(t.header_pool[header].base_offset, rounded_size,
                               usize_BITS))

\* allocate with the header it took, its free flag cleared in t: sum is
\* size.get() + MIN_BLOCK_MASK
AllocateHeader(t0, t, header, sum) ==
    IF overflow_checks /\ sum.ov THEN AllocatePanic(t0)
    ELSE AllocateRounded(t0, t, header, sum.v \ MIN_BLOCK_MASK,
                         WordSub(get_size(t.header_pool[header]),
                                 sum.v \ MIN_BLOCK_MASK, usize_BITS))

AllocateTaken(t0, taken, size) ==
    IF taken.t.panic \/ taken.header = NULL THEN AllocatePanic(t0)  \* take_block(..).unwrap()
    ELSE AllocateHeader(
             t0,
             [taken.t EXCEPT !.header_pool[taken.header] = clear_free_block_flag(@)],
             taken.header, WordAdd(size, MIN_BLOCK_MASK, usize_BITS))

\* allocate as it would be if it took the header for the split before it
\* searched for a block
AllocateFoundHeaderFirst(t, found, size) ==
    IF found.panic THEN AllocatePanic(t)
    ELSE IF ~found.some THEN Allocated(allocate_block_header(t).t, NULL)
    ELSE AllocateTaken(t, take_block(t, found.first_level, found.second_level), size)

AllocateFound(t, found, size) ==
    IF found.panic THEN AllocatePanic(t)
    ELSE IF ~found.some THEN Allocated(t, NULL)
    ELSE AllocateTaken(t, take_block(t, found.first_level, found.second_level), size)

\* pub unsafe fn allocate(&mut self, size: NonZeroUsize) -> Option<Allocation<T>>
allocate(t, size) == AllocateFound(t, find_free_block_index(t, size), size)

\* free at its end as it would be if the block were returned to the free lists
\* before its merged size is stored
FreeMergedReturnsFirst(t0, t, header, size, base_offset, ov) ==
    IF overflow_checks /\ ov THEN Panic(t0)
    ELSE [return_block_no_merge(t, header) EXCEPT !.header_pool[header] =
            [set_size(@, size) EXCEPT !.base_offset = base_offset]]

\* free at its end: the merged size and base offset are stored and the block
\* is returned to the free lists
FreeMerged(t0, t, header, size, base_offset, ov) ==
    IF overflow_checks /\ ov THEN Panic(t0)
    ELSE return_block_no_merge(
             [t EXCEPT !.header_pool[header] =
                [set_size(@, size) EXCEPT !.base_offset = base_offset]],
             header)

\* a free neighbour is absorbed: it leaves its free list and the physical list,
\* and its header returns to the header pool
Absorb(t, neighbour) ==
    free_block_header(
        remove_from_physical_list(remove_from_free_list(t, neighbour), neighbour),
        neighbour)

\* if let Some(next) = header.as_ref().next_physical.as_mut() { .. }
FreeNext(t0, t, header, next, size, base_offset, ov) ==
    IF next # NULL /\ is_free_block(t.header_pool[next])
    THEN FreeMerged(t0, Absorb(t, next), header,
                    WordAdd(size, get_size(t.header_pool[next]), usize_BITS).v,
                    base_offset,
                    ov \/ WordAdd(size, get_size(t.header_pool[next]), usize_BITS).ov)
    ELSE FreeMerged(t0, t, header, size, base_offset, ov)

\* free after the previous neighbour: next_physical is read again
FreePrevDone(t0, t, header, size, base_offset, ov) ==
    FreeNext(t0, t, header, t.header_pool[header].next_physical, size, base_offset, ov)

\* if let Some(prev) = header_ref.prev_physical.as_mut() { .. }
FreePrev(t, header, prev, size) ==
    IF prev # NULL /\ is_free_block(t.header_pool[prev])
    THEN FreePrevDone(t, Absorb(t, prev), header,
                      WordAdd(size, get_size(t.header_pool[prev]), usize_BITS).v,
                      t.header_pool[prev].base_offset,
                      WordAdd(size, get_size(t.header_pool[prev]), usize_BITS).ov)
    ELSE FreePrevDone(t, t, header, size, t.header_pool[header].base_offset, FALSE)

\* pub unsafe fn free(&mut self, allocation: Allocation<T>)
free(t, header) ==
    FreePrev(t, header, t.header_pool[header].prev_physical,
             get_size(t.header_pool[header]))

(***************************************************************************)
(* The allocator and its caller as a state machine                         *)
(***************************************************************************)
\* Bounds of the model
MaxPages == 3
MaxPages32 == 5
MaxHistory == 2
MaxMapSize == 16
MaxPagesMany == 66

\* The arguments the caller draws from
UsizeWidths == {32, 64}
MaxBlockSizes == {1000, 1024}
PageSizes == {48, 1024, 8192, 3802112}
RequestSizes == {100, 2624512, 3933184}

\* What the caller of a 32-bit build draws from, where requests are served
PageSizes32 == {1024, 4096, 8192, 788480, 3802112}
RequestSizes32 == {919552, 2624512}

\* A caller of a 32-bit build whose sizes are not all multiples of 32: the
\* pages it registers, in this order, and the sizes it requests
PageSequenceUnaligned == <<1048576, 130023456, 16, 251658288, 524288, 113246240>>
RequestSizesUnaligned == {8388624, 16777232, 121634848}

\* One call of the caller: what was called with which argument, how it ended
\* ("ok", "None", "Some" or "panic") and, for Some, the header, offset and size
\* of the allocation when it was returned
Call(op, arg, result, header, t) ==
    [op |-> op, arg |-> arg, result |-> result, header |-> header,
     offset |-> IF header = NULL THEN {} ELSE t.header_pool[header].base_offset,
     size   |-> IF header = NULL THEN {} ELSE get_size(t.header_pool[header])]

NoCall == [op |-> "new_for_max_size", arg |-> 0, result |-> "ok", header |-> NULL,
           offset |-> {}, size |-> {}]
Untracked == <<[NoCall EXCEPT !.op = "untracked"]>>

\* history is the log of every call since construction as long as the allocator
\* has a single page and the log has at most MaxHistory entries, and Untracked
\* from then on
Record(call) ==
    IF \/ history = Untracked
       \/ Len(history) >= MaxHistory
       \/ (call.op = "new_page" /\ Len(page_pool) >= 1)
    THEN Untracked
    ELSE Append(history, call)

\* the allocations of page p among live, and the most of them seen so far
LiveIn(t, live, p) == {h \in live : t.header_pool[h].pool = p}
Peak(t, live) ==
    [p \in 1 .. Len(t.page_pool) |->
        Max({IF p <= Len(peak) THEN peak[p] ELSE 0, Cardinality(LiveIn(t, live, p))})]

Commit(t) ==
    /\ free_first_level_mask' = t.free_first_level_mask
    /\ segregated_lists' = t.segregated_lists
    /\ header_free_list' = t.header_free_list
    /\ header_pool' = t.header_pool
    /\ page_pool' = t.page_pool

\* a call ends: a panic leaves the allocator as the caller last saw it, and no
\* further call is made on it
Return(t, call, live) ==
    /\ IF t.panic THEN UNCHANGED tlsf_vars ELSE Commit(t)
    /\ panicked' = t.panic
    /\ handles' = IF t.panic THEN handles ELSE live
    /\ last' = call
    /\ history' = Record(call)
    /\ peak' = IF t.panic THEN peak ELSE Peak(t, live)
    /\ UNCHANGED <<usize_BITS, overflow_checks, fn_in, fn_out, fn_pc>>
    /\ UNCHANGED winit_vars

ReturnUnit(t, op, arg, live) ==
    Return(t, Call(op, arg, IF t.panic THEN "panic" ELSE "ok", NULL, t), live)

ReturnOption(r, op, arg) ==
    Return(r.t,
           Call(op, arg,
                IF r.t.panic THEN "panic" ELSE IF r.allocation = NULL THEN "None" ELSE "Some",
                r.allocation, r.t),
           IF r.allocation = NULL THEN handles ELSE handles \cup {r.allocation})

(***************************************************************************)
(* The winit backend: threads, mutexes, condvars                           *)
(***************************************************************************)
\* the thread that runs event_loop.run, and the threads that call the backend:
\* the engine thread that run spawns and the threads it starts
NumClients == 2
EventLoop == 0
Clients == 1 .. NumClients
Threads == {EventLoop} \cup Clients

\* the windows whose surfaces the clients build
NumWindows == 2
Windows == 1 .. NumWindows

\* the mutexes: WindowChannel::guarded, WinitBackend::client_api_count and the
\* has_surface of each window
GuardedMutex == <<"guarded", 0>>
ClientApiCountMutex == <<"client_api_count", 0>>
HasSurfaceMutex(w) == <<"has_surface", w>>
Mutexes ==
    {GuardedMutex, ClientApiCountMutex} \cup {HasSurfaceMutex(w) : w \in Windows}

\* the condvars: WindowChannel::condvar, WinitBackend::loop_wait_condvar and
\* WinitBackend::suspended_condvar
Condvars == {"condvar", "loop_wait_condvar", "suspended_condvar"}

\* the locals of a thread that is in no call
NoLocals ==
    [id |-> 0, result |-> 0, window |-> 0, suspended |-> FALSE, built |-> "none"]

\* WinitBackend::new and WindowChannel::new, before any thread has run
WinitBackend_new ==
    /\ quit_requested = FALSE
    /\ events = <<>>
    /\ next_id = 1
    /\ available_windows = <<>>
    /\ client_api_count = 0
    /\ suspended_state = FALSE
    /\ has_surface = [w \in Windows |-> FALSE]
    /\ owner = [m \in Mutexes |-> {}]
    /\ waiting = [c \in Condvars |-> {}]
    /\ pc = [t \in Threads |-> "idle"]
    /\ local = [t \in Threads |-> NoLocals]
    /\ calls = [t \in Threads |-> 0]
    /\ sent = <<>>
    /\ pushed = <<>>
    /\ returned = {}
    /\ guards = [w \in Windows |-> {}]
    /\ suspend_returned = FALSE

InitWith(widths, max_block_sizes) ==
    /\ WinitBackend_new
    /\ usize_BITS \in widths
    /\ overflow_checks \in BOOLEAN
    /\ \E max_block_size \in max_block_sizes :
         /\ FirstLevelCount(Bits(max_block_size)) >= 0
         /\ free_first_level_mask = new_for_max_size(Bits(max_block_size)).free_first_level_mask
         /\ segregated_lists = new_for_max_size(Bits(max_block_size)).segregated_lists
         /\ header_free_list = new_for_max_size(Bits(max_block_size)).header_free_list
         /\ header_pool = new_for_max_size(Bits(max_block_size)).header_pool
         /\ page_pool = new_for_max_size(Bits(max_block_size)).page_pool
    /\ handles = {}
    /\ last = NoCall
    /\ history = <<>>
    /\ peak = <<>>
    /\ panicked = FALSE

Init ==
    /\ InitWith(UsizeWidths, MaxBlockSizes)
    /\ fn_in = <<>>
    /\ fn_out = <<>>
    /\ fn_pc = "off"

NewPageWithin(size, max_pages) ==
    /\ ~panicked
    /\ Len(page_pool) < max_pages
    /\ ReturnUnit(new_page(Self, Bits(size)), "new_page", size, handles)

NewPage(size) == NewPageWithin(size, MaxPages)

Allocate(size) ==
    /\ ~panicked
    /\ ReturnOption(allocate(Self, Bits(size)), "allocate", size)

Free(allocation) ==
    /\ ~panicked
    /\ allocation \in handles
    /\ ReturnUnit(free(Self, allocation), "free", allocation, handles \ {allocation})

Next ==
    \/ \E size \in PageSizes : NewPage(size)
    \/ \E size \in RequestSizes : Allocate(size)
    \/ \E allocation \in handles : Free(allocation)

Spec == Init /\ [][Next]_vars

\* The allocator of a 32-bit build made for blocks of up to 1000 bytes
Init32 ==
    /\ InitWith({32}, {1000})
    /\ fn_in = <<>>
    /\ fn_out = <<>>
    /\ fn_pc = "off"

NewPage32(size) == NewPageWithin(size, MaxPages32)

Next32 ==
    \/ \E size \in PageSizes32 : NewPage32(size)
    \/ \E size \in RequestSizes32 : Allocate(size)
    \/ \E allocation \in handles : Free(allocation)

Spec32 == Init32 /\ [][Next32]_vars

NewPageUnaligned ==
    /\ Len(page_pool) < Len(PageSequenceUnaligned)
    /\ NewPageWithin(PageSequenceUnaligned[Len(page_pool) + 1], Len(PageSequenceUnaligned))

NextUnaligned ==
    \/ NewPageUnaligned
    \/ \E size \in RequestSizesUnaligned : Allocate(size)
    \/ \E allocation \in handles : Free(allocation)

SpecUnaligned == Init32 /\ [][NextUnaligned]_vars

\* A caller of a 32-bit build that registers more pages than a batch has
\* headers: the five pages its requests are served from, then pages of 1024 bytes
PageSequenceMany == <<1024, 8192, 3802112, 4096, 788480>>
PageSizeMany(k) == IF k <= Len(PageSequenceMany) THEN PageSequenceMany[k] ELSE 1024

RequestSizesMany == {2624512}

NewPageMany == NewPageWithin(PageSizeMany(Len(page_pool) + 1), MaxPagesMany)

NextMany ==
    \/ NewPageMany
    \/ \E size \in RequestSizesMany : Allocate(size)
    \/ \E allocation \in handles : Free(allocation)

SpecMany == Init32 /\ [][NextMany]_vars

\* A caller of a 32-bit build whose requests are rounded, split blocks that
\* have a physical successor and fit a free block exactly: the pages it
\* registers, in this order, and the sizes it requests
PageSequenceSplit == <<1048576, 130023456, 251658288, 75497488, 524288, 37748768>>
RequestSizesSplit == {83886096, 92274704, 50331680, 83886112}

NewPageSplit ==
    /\ Len(page_pool) < Len(PageSequenceSplit)
    /\ NewPageWithin(PageSequenceSplit[Len(page_pool) + 1], Len(PageSequenceSplit))

NextSplit ==
    \/ NewPageSplit
    \/ \E size \in RequestSizesSplit : Allocate(size)
    \/ \E allocation \in handles : Free(allocation)

SpecSplit == Init32 /\ [][NextSplit]_vars

\* map_request_size as a function of its argument alone: a pair of sizes
\* size1 < size2 is drawn and both are mapped
InitMap ==
    /\ InitWith(UsizeWidths, MaxBlockSizes)
    /\ fn_in \in {p \in (1 .. MaxMapSize) \X (1 .. MaxMapSize) : p[1] < p[2]}
    /\ fn_out = <<>>
    /\ fn_pc = "call"

MapRequestSizes ==
    /\ fn_pc = "call"
    /\ fn_out' = <<map_request_size(Bits(fn_in[1])), map_request_size(Bits(fn_in[2]))>>
    /\ fn_pc' = "done"
    /\ UNCHANGED <<usize_BITS, overflow_checks, tlsf_vars, handles, last, history,
                   peak, panicked, fn_in>>
    /\ UNCHANGED winit_vars

NextMap == MapRequestSizes

SpecMap == InitMap /\ [][NextMap]_vars

\* the sizes the class functions are applied to: mantissa * 2^exponent
MaxMantissa == 3
MaxExponent == 17
ClassSizes ==
    {k * (2 ^ e) : k \in 1 .. MaxMantissa, e \in 0 .. MaxExponent} \cup {127 * (2 ^ 13)}

\* map_request_size and map_block_size as functions of their argument alone: a
\* request size and a block size, a multiple of MIN_BLOCK_SIZE, are drawn and
\* both are mapped by both functions
InitClasses ==
    /\ InitWith(UsizeWidths, MaxBlockSizes)
    /\ fn_in \in ClassSizes \X {b \in ClassSizes : b % (2 ^ MISSING_MIN_BLOCKS) = 0}
    /\ fn_out = <<>>
    /\ fn_pc = "call"

MapSizes ==
    /\ fn_pc = "call"
    /\ fn_out' = [request |-> map_request_size(Bits(fn_in[1])),
                  block |-> map_block_size(Bits(fn_in[2])),
                  block_request |-> map_request_size(Bits(fn_in[2])),
                  request_block |-> map_block_size(Bits(fn_in[1]))]
    /\ fn_pc' = "done"
    /\ UNCHANGED <<usize_BITS, overflow_checks, tlsf_vars, handles, last, history,
                   peak, panicked, fn_in>>
    /\ UNCHANGED winit_vars

NextClasses == MapSizes

SpecClasses == InitClasses /\ [][NextClasses]_vars

\* the masks and positions first_one_after_at is applied to
MaxAfterAt == 6
MaskBits == {0, 1, 4, 5, 31}

\* first_one_after_at as a function of its arguments alone
InitScan ==
    /\ InitWith(UsizeWidths, MaxBlockSizes)
    /\ fn_in \in (SUBSET MaskBits) \X (0 .. MaxAfterAt)
    /\ fn_out = <<>>
    /\ fn_pc = "call"

FirstOneAfterAt ==
    /\ fn_pc = "call"
    /\ fn_out' = first_one_after_at(fn_in[1], Bits(fn_in[2]))
    /\ fn_pc' = "done"
    /\ UNCHANGED <<usize_BITS, overflow_checks, tlsf_vars, handles, last, history,
                   peak, panicked, fn_in>>
    /\ UNCHANGED winit_vars

NextScan == FirstOneAfterAt

SpecScan == InitScan /\ [][NextScan]_vars

(***************************************************************************)
(* What a state holds: the blocks of the pages and the free lists          *)
(***************************************************************************)
\* the headers linked from h through next_free
RECURSIVE FreeChain(_, _)
FreeChain(h, seen) ==
    IF h = NULL \/ h \in seen THEN seen
    ELSE FreeChain(header_pool[h].next_free, seen \cup {h})

\* the heads of the segregated free lists
ListHeads ==
    {segregated_lists[c[1]].list_headers[c[2]] :
        c \in (DOMAIN segregated_lists) \X (0 .. (SECOND_LEVEL_COUNT - 1))} \ {NULL}

\* the blocks held in the segregated free lists
FreeBlocks == UNION {FreeChain(head, {}) : head \in ListHeads}

\* the headers that stand for a block of a page: all but the unused ones
Blocks == (1 .. Len(header_pool)) \ FreeChain(header_free_list, {})

Offset(h) == header_pool[h].base_offset
Size(h) == get_size(header_pool[h])
\* base_offset + size without a width
End(h) == WordAdd(Offset(h), Size(h), usize_BITS + 1).v

\* what allocate returned
IsSome(r) == ~r.t.panic /\ r.allocation # NULL
IsNone(r) == ~r.t.panic /\ r.allocation = NULL

(***************************************************************************)
(* Properties                                                              *)
(***************************************************************************)
Disjoint(a, b) == WordLeq(End(a), Offset(b)) \/ WordLeq(End(b), Offset(a))

\* C1: every live allocation's offset lies in [0, page_size) of its pool, and no
\* two live allocations of the same pool have overlapping byte ranges
\* [offset, offset + block size)
C1_LiveAllocationsDisjoint ==
    \A a \in handles :
        /\ WordLess(Offset(a), page_pool[header_pool[a].pool])
        /\ \A b \in handles \ {a} :
             header_pool[a].pool = header_pool[b].pool => Disjoint(a, b)

\* the block find_free_block_index chooses for a request, NULL if it chooses none
ChosenBlock(found) ==
    IF found.panic \/ ~found.some THEN NULL
    ELSE IF ~HasFirstLevel(Self, found.first_level) THEN NULL
    ELSE IF found.second_level >= SECOND_LEVEL_COUNT THEN NULL
    ELSE segregated_lists[found.first_level].list_headers[found.second_level]

ChosenCovers(chosen, sum) ==
    chosen # NULL => ~sum.ov /\ WordLeq(sum.v \ MIN_BLOCK_MASK, Size(chosen))

\* C2: whenever allocate(size) returns Some(allocation) the block has size at
\* least size, and the free block find_free_block_index chooses is never
\* smaller than the request rounded up to a multiple of 32, so that
\* block size - rounded_size never underflows
C2_ChosenBlockCoversRequest ==
    /\ (last.op = "allocate" /\ last.result = "Some") => WordLeq(Bits(last.arg), last.size)
    /\ \A size \in RequestSizes :
         ChosenCovers(ChosenBlock(find_free_block_index(Self, Bits(size))),
                      WordAdd(Bits(size), MIN_BLOCK_MASK, usize_BITS))

NoAdjacentIn(blocks) == \A h \in blocks : header_pool[h].next_physical \notin blocks

\* C3: when free or allocate has returned, no two physically adjacent blocks
\* are both free
C3_NoAdjacentFreeBlocks ==
    (last.op \in {"free", "allocate"} /\ last.result # "panic") => NoAdjacentIn(FreeBlocks)

OneFreeBlock(blocks, free_blocks, size) ==
    \E h \in blocks :
        /\ blocks = {h}
        /\ h \in free_blocks
        /\ Offset(h) = {}
        /\ Size(h) = size

PagesRestored(blocks, free_blocks) ==
    \A p \in 1 .. Len(page_pool) :
        LiveIn(Self, handles, p) = {}
            => OneFreeBlock({h \in blocks : header_pool[h].pool = p}, free_blocks,
                            page_pool[p])

\* C4: once every allocation made from a page of size S has been freed, the
\* page's physical list is exactly one block, which is free, has base_offset 0
\* and size S
C4_PageRestored == PagesRestored(Blocks, FreeBlocks)

\* C5: allocate(size) with size > 0 never panics
C5_AllocateNeverPanics == ~(last.op = "allocate" /\ last.result = "panic")

\* the total size of a set of blocks
RECURSIVE TotalSize(_, _)
TotalSize(blocks, sum) ==
    IF blocks = {} THEN sum
    ELSE TotalSize(blocks \ {Max(blocks)},
                   WordAdd(sum, Size(Max(blocks)), 2 * usize_BITS).v)

\* the total size of the free blocks of every size class that holds some
ClassTotals == {TotalSize(FreeChain(head, {}), {}) : head \in ListHeads}

Sufficient(size, totals) == \E total \in totals : WordLeq(size, total)

\* C6: if the free blocks of some single size class have total size greater
\* than or equal to the requested size, allocate(size) does not return None
C6_NoFalseExhaustion ==
    \A size \in RequestSizes :
        Sufficient(Bits(size), ClassTotals) => ~IsNone(allocate(Self, Bits(size)))

\* C7: the size of every block is an exact multiple of the minimum block
\* size 32 (so its two low bits are zero)
C7_SizesAreMultiplesOf32 == \A h \in Blocks : Size(h) \cap MIN_BLOCK_MASK = {}

\* (first_level, second_level) pairs compared lexicographically
LexLeq(a, b) ==
    \/ a.first_level < b.first_level
    \/ a.first_level = b.first_level /\ WordLeq(a.second_level, b.second_level)

\* C8: for all sizes size1 < size2, map_request_size(size1) <=
\* map_request_size(size2) lexicographically
C8_MapRequestSizeMonotone ==
    (fn_pc = "done" /\ ~fn_out[1].panic /\ ~fn_out[2].panic) => LexLeq(fn_out[1], fn_out[2])

\* allocate served a block of the given size
Served(r, size) == IsSome(r) /\ get_size(r.t.header_pool[r.allocation]) = Bits(size)

\* the third allocation r3 lies inside the 128 bytes the first one, r1, occupied
C9Reuse(r1, r3) ==
    /\ Served(r3, 64)
    /\ WordLeq(r1.t.header_pool[r1.allocation].base_offset,
               r3.t.header_pool[r3.allocation].base_offset)
    /\ WordLess(r3.t.header_pool[r3.allocation].base_offset,
                WordAdd(r1.t.header_pool[r1.allocation].base_offset, Bits(128),
                        usize_BITS + 1).v)
C9Freed(r1, t) == ~t.panic /\ C9Reuse(r1, allocate(t, Bits(50)))
C9Second(r1, r2) == Served(r2, 224) /\ C9Freed(r1, free(r2.t, r1.allocation))
C9First(r1) == Served(r1, 128) /\ C9Second(r1, allocate(r1.t, Bits(200)))

\* C9: on a fresh allocator with one registered page of 1024 bytes, allocate(100),
\* allocate(200), free(first), allocate(50) succeeds at every allocate, serves
\* blocks of 128, 224 and 64 bytes, and the third allocation's offset lies in
\* [offset1, offset1 + 128)
C9_ReuseScenario ==
    (/\ Len(history) = 1
     /\ history[1].op = "new_page"
     /\ history[1].arg = 1024
     /\ history[1].result = "ok")
        => C9First(allocate(Self, Bits(100)))

\* allocate returned the whole of page p
WholePage(r, p) ==
    /\ IsSome(r)
    /\ r.t.header_pool[r.allocation].pool = p
    /\ r.t.header_pool[r.allocation].base_offset = {}
    /\ get_size(r.t.header_pool[r.allocation]) = page_pool[p]

\* C10: after two physically adjacent blocks of a page of size S were allocated
\* and both freed, in either order, allocate(S) returns Some: an allocation
\* at offset 0 that covers the whole page
C10_CoalescedAfterFrees ==
    \A p \in 1 .. Len(page_pool) :
        (peak[p] = 2 /\ LiveIn(Self, handles, p) = {})
            => WholePage(allocate(Self, page_pool[p]), p)

\* the block sizes new_for_max_size(max_block_size) is made for: the multiples
\* of 32 up to max_block_size
BlockSizesUpTo(max_block_size) ==
    {s \in 1 .. max_block_size : s % (2 ^ MISSING_MIN_BLOCKS) = 0}

\* the class of a block of the given size has an entry in segregated_lists
ClassInRange(c) == ~c.panic /\ HasFirstLevel(Self, c.first_level)

\* C11: for an allocator built with new_for_max_size(M), every block size s with
\* 0 < s <= M that is a multiple of 32 is mapped by map_block_size to a first
\* level below the number of first-level classes the constructor pre-sized, so
\* that new_page with such a size never panics, in particular for s = M
C11_ClassesCoverMaxSize ==
    \A max_block_size \in MaxBlockSizes :
        DOMAIN segregated_lists = DOMAIN new_for_max_size(Bits(max_block_size)).segregated_lists
            => /\ \A s \in BlockSizesUpTo(max_block_size) :
                    ClassInRange(map_block_size(Bits(s)))
               /\ (last.op = "new_page" /\ last.arg \in BlockSizesUpTo(max_block_size))
                    => last.result # "panic"

\* the physical neighbours of every block are blocks of the block's page
SamePoolNeighbours ==
    \A h \in Blocks :
        /\ header_pool[h].pool \in 1 .. Len(page_pool)
        /\ header_pool[h].next_physical # NULL
             => header_pool[header_pool[h].next_physical].pool = header_pool[h].pool
        /\ header_pool[h].prev_physical # NULL
             => header_pool[header_pool[h].prev_physical].pool = header_pool[h].pool

\* the headers linked from h through next_free in the allocator t, and the
\* headers of t that stand for a block of a page
RECURSIVE FreeChainIn(_, _, _)
FreeChainIn(t, h, seen) ==
    IF h = NULL \/ h \in seen THEN seen
    ELSE FreeChainIn(t, t.header_pool[h].next_free, seen \cup {h})
BlocksIn(t) == (1 .. Len(t.header_pool)) \ FreeChainIn(t, t.header_free_list, {})

\* one call that takes the allocator from t0 to t, with the blocks before and
\* after it: a block keeps its page, only free ends blocks and only blocks of
\* the page of the block it frees, and a new block is the block of a new page
\* or is split from the block allocate returns and has that block's page
PoolsKept(t0, t, before, after, op, header) ==
    /\ \A h \in before \cap after : t.header_pool[h].pool = t0.header_pool[h].pool
    /\ \A h \in before \ after :
         /\ op = "free"
         /\ t0.header_pool[h].pool = t0.header_pool[header].pool
    /\ \A h \in after \ before :
         \/ /\ op = "new_page"
            /\ t.header_pool[h].pool = Len(t.page_pool)
            /\ Len(t.page_pool) = Len(t0.page_pool) + 1
         \/ /\ op = "allocate"
            /\ header \in before
            /\ t.header_pool[h].pool = t0.header_pool[header].pool

PoolsKeptBy(t0, t, op, header) ==
    t.panic \/ PoolsKept(t0, t, BlocksIn(t0), BlocksIn(t), op, header)

\* C12: pages registered by separate new_page calls stay independent: the
\* physical neighbours of a block have the block's pool, and whatever is called
\* next, free never merges blocks of two pages and an allocation's pool is the
\* page whose registration created the block it was carved from
C12_PagesIndependent ==
    /\ SamePoolNeighbours
    /\ \A size \in PageSizes32 :
         PoolsKeptBy(Self, new_page(Self, Bits(size)), "new_page", NULL)
    /\ \A size \in RequestSizes32 :
         PoolsKeptBy(Self, allocate(Self, Bits(size)).t, "allocate",
                     allocate(Self, Bits(size)).allocation)
    /\ \A allocation \in handles :
         PoolsKeptBy(Self, free(Self, allocation), "free", allocation)

\* a block was freed beside a block of its page while other pages are registered
C12_FreedAmongPages ==
    /\ last.op = "free"
    /\ last.result = "ok"
    /\ Len(page_pool) >= 2
    /\ \E h \in Blocks : header_pool[h].next_physical # NULL

\* the header h is in t what it was in t0 but for its physical-list links
HeaderKept(t0, t, h) ==
    t.header_pool[h] =
        [t0.header_pool[h] EXCEPT !.next_physical = t.header_pool[h].next_physical,
                                  !.prev_physical = t.header_pool[h].prev_physical]

\* a call that takes the allocator from t0 to t keeps the headers of live
HandlesKeptBy(t0, t, live) == t.panic \/ \A h \in live : HeaderKept(t0, t, h)

\* C13: for a live allocation A, get_offset(A) and get_pool(A) stay the same
\* from the moment allocate returned A until A is passed to free, whatever
\* allocate, free (of other handles) and new_page calls happen in between;
\* those calls change at most the physical-list links of A's header
C13_HandlesStable ==
    /\ \A size \in PageSizes32 :
         HandlesKeptBy(Self, new_page(Self, Bits(size)), handles)
    /\ \A size \in RequestSizes32 :
         HandlesKeptBy(Self, allocate(Self, Bits(size)).t, handles)
    /\ \A allocation \in handles :
         HandlesKeptBy(Self, free(Self, allocation), handles \ {allocation})

\* a live allocation lies beside an allocation that has just been freed
C13_NeighbourFreed ==
    /\ last.op = "free"
    /\ last.result = "ok"
    /\ \E h \in handles :
         last.arg \in {header_pool[h].next_physical, header_pool[h].prev_physical}

\* C14: when allocate returns None the allocator state is unchanged: no page is
\* registered, no header is taken from or added to the header pool, and every
\* block, free list, physical list and bitmap is exactly as before the call
C14_NoneChangesNothing ==
    [][(last'.op = "allocate" /\ last'.result = "None")
          => (UNCHANGED tlsf_vars /\ UNCHANGED handles)]_vars

\* allocate has returned None while the allocator holds free blocks
C14_ReturnedNone ==
    /\ last.op = "allocate"
    /\ last.result = "None"
    /\ FreeBlocks # {}

\* C15: in every state between operations, for every first-level class f and
\* second-level slot s, bit s of segregated_lists[f].free_mask is set if and
\* only if list_headers[f][s] is non-null; this survives free(), which unlinks
\* absorbed neighbours with remove_from_free_list directly
C15_SecondLevelMaskConsistent ==
    \A f \in DOMAIN segregated_lists :
        \A s \in 0 .. (SECOND_LEVEL_COUNT - 1) :
            (s \in segregated_lists[f].free_mask)
                <=> (segregated_lists[f].list_headers[s] # NULL)

\* the first-level classes whose bit is set in free_first_level_mask, those
\* whose free_mask is non-zero and those that hold at least one free block
FirstLevelsMarked == free_first_level_mask \cap DOMAIN segregated_lists
FirstLevelsMasked == {f \in DOMAIN segregated_lists : segregated_lists[f].free_mask # {}}
FirstLevelsHolding ==
    {f \in DOMAIN segregated_lists :
        \E s \in 0 .. (SECOND_LEVEL_COUNT - 1) : segregated_lists[f].list_headers[s] # NULL}

\* bit f of free_first_level_mask is set if and only if free_mask of f is non-zero
FirstLevelMaskMatchesMasks ==
    /\ free_first_level_mask \subseteq DOMAIN segregated_lists
    /\ FirstLevelsMarked = FirstLevelsMasked

\* C16: in every state between operations, bit f of free_first_level_mask is set
\* if and only if segregated_lists[f].free_mask is non-zero, that is, if and only
\* if class f holds at least one free block
C16_FirstLevelMaskConsistent ==
    /\ FirstLevelMaskMatchesMasks
    /\ FirstLevelsMarked = FirstLevelsHolding

\* the free flag of the blocks says which of them the free lists hold
FlagMatchesLists(blocks, free_blocks) ==
    \A h \in blocks : is_free_block(header_pool[h]) <=> h \in free_blocks

\* C17: in every state between operations, a block header that is part of some
\* page's physical list has its free flag set if and only if it is reachable by
\* next_free links from some segregated free-list head; blocks referenced by
\* live allocations have the flag clear and are reachable from no free-list head
C17_FreeFlagMatchesLists ==
    /\ FlagMatchesLists(Blocks, FreeBlocks)
    /\ \A h \in handles : ~is_free_block(header_pool[h])
    /\ handles \cap FreeBlocks = {}

\* the headers linked from h through next_physical
RECURSIVE PhysicalChain(_, _)
PhysicalChain(h, seen) ==
    IF h = NULL \/ h \in seen THEN seen
    ELSE PhysicalChain(header_pool[h].next_physical, seen \cup {h})

\* the walk from h through next_free, or through next_physical, ends at a null
\* pointer without meeting a header twice
RECURSIVE FreeChainEnds(_, _)
FreeChainEnds(h, seen) ==
    h = NULL \/ (h \notin seen /\ FreeChainEnds(header_pool[h].next_free, seen \cup {h}))
RECURSIVE PhysicalChainEnds(_, _)
PhysicalChainEnds(h, seen) ==
    h = NULL
    \/ (h \notin seen /\ PhysicalChainEnds(header_pool[h].next_physical, seen \cup {h}))

\* the blocks of one page are one physical list: one of them has no
\* prev_physical and the list from it holds each of them once
OnePhysicalList(blocks) ==
    \E first \in blocks :
        /\ \A h \in blocks : header_pool[h].prev_physical = NULL <=> h = first
        /\ PhysicalChainEnds(first, {})
        /\ PhysicalChain(first, {}) = blocks

\* the classes (first_level, second_level) whose free list is not empty
ListSlots ==
    {c \in (DOMAIN segregated_lists) \X (0 .. (SECOND_LEVEL_COUNT - 1)) :
        segregated_lists[c[1]].list_headers[c[2]] # NULL}
ListOf(c) == FreeChain(segregated_lists[c[1]].list_headers[c[2]], {})

\* the free lists hold every free block once, in the list of the class of its size
OnceInClassList(slots, free_blocks) ==
    /\ \A c \in slots :
         /\ FreeChainEnds(segregated_lists[c[1]].list_headers[c[2]], {})
         /\ \A h \in ListOf(c) : map_block_size(Size(h)) = Class(c[1], Bits(c[2]))
         /\ \A d \in slots \ {c} : ListOf(c) \cap ListOf(d) = {}
    /\ UNION {ListOf(c) : c \in slots} = free_blocks

\* C18: in every state between operations, every block belongs to exactly one
\* physical list, and every free block appears exactly once in exactly one
\* segregated free list, namely the list of the class map_block_size(its
\* current size)
C18_OneListEach ==
    /\ \A p \in 1 .. Len(page_pool) : OnePhysicalList({h \in Blocks : header_pool[h].pool = p})
    /\ OnceInClassList(ListSlots, Blocks \ handles)

\* a block has been freed and has absorbed its neighbour, whose header is the
\* head of the header free list, while some free list holds more than one block
C18_MergedBesideSharedList ==
    /\ last.op = "free"
    /\ last.result = "ok"
    /\ last.arg \in FreeBlocks
    /\ header_free_list # NULL
    /\ header_pool[header_free_list].pool # NULL
    /\ \E c \in ListSlots : Cardinality(ListOf(c)) >= 2

\* the blocks tile [0, size) in the order of their physical list
Tiling(blocks, size) ==
    /\ \A h \in blocks :
         /\ header_pool[h].prev_physical = NULL => Offset(h) = {}
         /\ header_pool[h].next_physical # NULL
              => /\ Offset(header_pool[h].next_physical) = End(h)
                 /\ header_pool[header_pool[h].next_physical].prev_physical = h
    /\ TotalSize(blocks, {}) = size

\* C19: each page's physical list is an address-ordered tiling of the page: the
\* block with no prev_physical has base_offset 0, every block b with a
\* next_physical n satisfies n.base_offset = b.base_offset + b.size and
\* n.prev_physical = b, and the sizes of the page's blocks sum to the size
\* passed to new_page; this holds after every new_page, allocate and free
C19_PhysicalListTilesPage ==
    \A p \in 1 .. Len(page_pool) :
        Tiling({h \in Blocks : header_pool[h].pool = p}, page_pool[p])

\* the headers of t0 that a call from t0 to t has put on the header free list
Recycled(t0, t) ==
    (FreeChainIn(t, t.header_free_list, {}) \ FreeChainIn(t0, t0.header_free_list, {}))
        \cap (1 .. Len(t0.header_pool))

\* a call that is not free recycles no header
RecyclesNone(t0, t) == t.panic \/ Recycled(t0, t) = {}

\* free(allocation) recycles only the headers of the physical neighbours of the
\* block, and those only if the free lists held them
RecyclesNeighbours(t0, t, allocation, free_blocks) ==
    \/ t.panic
    \/ /\ allocation \notin FreeChainIn(t, t.header_free_list, {})
       /\ Recycled(t0, t)
             \subseteq ({t0.header_pool[allocation].prev_physical,
                         t0.header_pool[allocation].next_physical} \cap free_blocks)

\* C20: a header referenced by a live allocation is never placed on the header
\* free list and never handed out again by allocate_block_header: allocate and
\* new_page recycle no header, and free recycles only the headers of the free
\* neighbours it absorbs, never the header of the block being freed
C20_LiveHeadersNotRecycled ==
    /\ handles \cap FreeChain(header_free_list, {}) = {}
    /\ allocate_block_header(Self).header \notin handles
    /\ \A size \in PageSizes32 : RecyclesNone(Self, new_page(Self, Bits(size)))
    /\ \A size \in RequestSizes32 : RecyclesNone(Self, allocate(Self, Bits(size)).t)
    /\ \A allocation \in handles :
         RecyclesNeighbours(Self, free(Self, allocation), allocation, FreeBlocks)

\* free has recycled the header of a neighbour while another allocation is live
C20_RecycledBesideLive ==
    /\ last.op = "free"
    /\ last.result = "ok"
    /\ handles # {}
    /\ header_free_list # NULL
    /\ header_pool[header_free_list].pool # NULL

\* the first block of the physical list of h, n bounding the walk
RECURSIVE PhysicalFirst(_, _)
PhysicalFirst(h, n) ==
    IF header_pool[h].prev_physical = NULL \/ n = 0 THEN h
    ELSE PhysicalFirst(header_pool[h].prev_physical, n - 1)

\* the headers in use as blocks: the members of the physical lists of the
\* blocks the free lists hold and of the live allocations
BlocksInUse ==
    UNION {PhysicalChain(PhysicalFirst(h, Len(header_pool)), {}) : h \in FreeBlocks \cup handles}

\* the headers on the header free list and the headers in use are all the
\* headers of the batches, each once
HeadersConserved(unused, used) ==
    /\ FreeChainEnds(header_free_list, {})
    /\ unused \cap used = {}
    /\ Cardinality(unused) + Cardinality(used) = Len(header_pool)
    /\ Len(header_pool) % HEADER_BATCH = 0

\* a step that adds headers adds one batch, finds the header free list empty
\* and leaves all of the batch but one header on it
BatchOnlyWhenEmpty ==
    Len(header_pool') # Len(header_pool)
        => /\ header_free_list = NULL
           /\ Len(header_pool') = Len(header_pool) + HEADER_BATCH
           /\ Cardinality(FreeChain(header_free_list, {})') = HEADER_BATCH - 1

\* C21: in every state between operations, the headers on the header free list
\* and the headers in use as blocks are disjoint sets whose sizes add up to 64
\* times the number of header batches; a new batch is created only by an
\* allocate_block_header call that finds the header free list empty, and it
\* leaves 63 headers on that list
C21_HeadersConserved ==
    /\ [](HeadersConserved(FreeChain(header_free_list, {}), BlocksInUse))
    /\ [][BatchOnlyWhenEmpty]_vars

\* a second batch of headers exists and free has just recycled a header
C21_SecondBatch ==
    /\ Len(header_pool) = 2 * HEADER_BATCH
    /\ last.op = "free"
    /\ last.result = "ok"
    /\ header_free_list # NULL
    /\ header_pool[header_free_list].pool # NULL

\* the blocks held in the segregated free lists of the allocator t
FreeBlocksIn(t) ==
    UNION {FreeChainIn(t, t.segregated_lists[c[1]].list_headers[c[2]], {}) :
              c \in (DOMAIN t.segregated_lists) \X (0 .. (SECOND_LEVEL_COUNT - 1))}

\* the block chosen is served in t with the offset it had in t0 and size r
ServedAs(t0, t, chosen, r) ==
    /\ t.header_pool[chosen].base_offset = t0.header_pool[chosen].base_offset
    /\ t.header_pool[chosen].pool = t0.header_pool[chosen].pool
    /\ get_size(t.header_pool[chosen]) = r
    /\ ~is_free_block(t.header_pool[chosen])

\* x is the block split from chosen, of size b before the call and r after it,
\* whose physical successor was n
SplitOff(t0, t, chosen, x, r, b, n) ==
    /\ t.header_pool[x].base_offset =
           WordAdd(t0.header_pool[chosen].base_offset, r, usize_BITS + 1).v
    /\ WordAdd(get_size(t.header_pool[x]), r, usize_BITS + 1).v = b
    /\ t.header_pool[x].pool = t0.header_pool[chosen].pool
    /\ is_free_block(t.header_pool[x])
    /\ t.header_pool[chosen].next_physical = x
    /\ t.header_pool[x].prev_physical = chosen
    /\ t.header_pool[x].next_physical = n
    /\ n # NULL => t.header_pool[n].prev_physical = x
    /\ x \in FreeBlocksIn(t)

\* what allocate does with the block it has chosen, of size b, for the rounded
\* request r
SplitStep(t0, res, chosen, r, b, before, after) ==
    /\ WordLess(r, b) =>
         /\ IsSome(res)
         /\ res.allocation = chosen
         /\ ServedAs(t0, res.t, chosen, r)
         /\ before \subseteq after
         /\ \E x \in after \ before :
              /\ after \ before = {x}
              /\ SplitOff(t0, res.t, chosen, x, r, b, t0.header_pool[chosen].next_physical)
    /\ r = b =>
         /\ IsSome(res)
         /\ res.allocation = chosen
         /\ ServedAs(t0, res.t, chosen, r)
         /\ after = before
         /\ res.t.header_free_list = t0.header_free_list
         /\ Len(res.t.header_pool) = Len(t0.header_pool)
         /\ res.t.header_pool[chosen].next_physical = t0.header_pool[chosen].next_physical

SplitStepOf(t0, res, chosen, sum) ==
    (chosen # NULL /\ ~sum.ov)
        => SplitStep(t0, res, chosen, sum.v \ MIN_BLOCK_MASK, get_size(t0.header_pool[chosen]),
                     BlocksIn(t0), BlocksIn(res.t))

\* C22: when the chosen free block (offset o, size b, pool p, physical successor
\* n) is strictly larger than the rounded request r, then after allocate the
\* served block has offset o and size r with its free flag clear, and a new free
\* block exists with offset o + r, size b - r and pool p, linked in the physical
\* list directly after the served block and directly before n, and inserted in a
\* segregated free list; when b = r no block is created and no header is taken
\* from the header pool
C22_SplitStep ==
    \A size \in RequestSizesSplit :
        SplitStepOf(Self, allocate(Self, Bits(size)),
                    ChosenBlock(find_free_block_index(Self, Bits(size))),
                    WordAdd(Bits(size), MIN_BLOCK_MASK, usize_BITS))

\* allocate has split a block that had a physical successor: the block it
\* returned is followed by a free block that is followed by another block
C22_SplitBeforeSuccessor ==
    /\ last.op = "allocate"
    /\ last.result = "Some"
    /\ header_pool[last.header].next_physical # NULL
    /\ is_free_block(header_pool[header_pool[last.header].next_physical])
    /\ header_pool[header_pool[last.header].next_physical].next_physical # NULL
    /\ WordLeq(Bits(last.arg), last.size)

\* the size of the block h of t0 when it is one of the blocks in absorbed, and
\* zero otherwise
SizeIfIn(t0, h, absorbed) ==
    IF h \in absorbed THEN get_size(t0.header_pool[h]) ELSE {}

\* the block of the header freed is in a free list of t with the size of the
\* block and of its neighbours in absorbed, and the lowest of their offsets
MergedBlock(t0, t, allocation, prev, next, absorbed, after_free) ==
    /\ allocation \in after_free
    /\ get_size(t.header_pool[allocation]) =
           WordAdd(WordAdd(get_size(t0.header_pool[allocation]),
                           SizeIfIn(t0, prev, absorbed), usize_BITS + 1).v,
                   SizeIfIn(t0, next, absorbed), usize_BITS + 2).v
    /\ t.header_pool[allocation].base_offset =
           IF prev \in absorbed THEN t0.header_pool[prev].base_offset
           ELSE t0.header_pool[allocation].base_offset

\* the neighbours in absorbed are in neither kind of list of t, the others are
\* as they were in t0
NeighboursMerged(t0, t, neighbours, absorbed, after, after_free) ==
    /\ absorbed \cap (after \cup after_free) = {}
    /\ \A n \in (neighbours \ {NULL}) \ absorbed : t.header_pool[n] = t0.header_pool[n]

MergeStep(t0, t, allocation, prev, next, free_blocks) ==
    /\ ~t.panic
    /\ MergedBlock(t0, t, allocation, prev, next, {prev, next} \cap free_blocks,
                   FreeBlocksIn(t))
    /\ NeighboursMerged(t0, t, {prev, next}, {prev, next} \cap free_blocks,
                        BlocksIn(t), FreeBlocksIn(t))

\* C23: after free(A) the block of A's header is free, its size is A's size plus
\* the sizes of those of its previous and next physical neighbours that were
\* free, its base_offset is the previous neighbour's offset if that neighbour
\* was free and A's offset otherwise, the absorbed neighbours are no longer in
\* the physical list or in any segregated free list, and neighbours that were
\* allocated are left untouched; a block is free when it is in a segregated
\* free list
C23_MergeStep ==
    \A allocation \in handles :
        MergeStep(Self, free(Self, allocation),
                  allocation,
                  header_pool[allocation].prev_physical,
                  header_pool[allocation].next_physical,
                  FreeBlocks)

\* the class c is at or above the class r of a request
AtOrAbove(r, c) ==
    \/ c[1] > r.first_level
    \/ c[1] = r.first_level /\ WordLeq(r.second_level, Bits(c[2]))

\* c is the lexicographically smallest of the classes
SmallestOf(classes, c) ==
    /\ c \in classes
    /\ \A d \in classes : c[1] < d[1] \/ (c[1] = d[1] /\ c[2] <= d[2])

SmallestAtOrAbove(found, classes) ==
    /\ ~found.panic
    /\ found.some <=> classes # {}
    /\ found.some => SmallestOf(classes, <<found.first_level, found.second_level>>)

FindsSmallest(r, found) ==
    ~r.panic => SmallestAtOrAbove(found, {c \in ListSlots : AtOrAbove(r, c)})

\* C24: find_free_block_index(size) returns the lexicographically smallest
\* occupied class (f, s) that is at or above map_request_size(size), and returns
\* None exactly when no class at or above the requested class is occupied
C24_FindsSmallestClass ==
    \A size \in RequestSizes32 :
        FindsSmallest(map_request_size(Bits(size)), find_free_block_index(Self, Bits(size)))

\* the lowest position of mask at or after n, as an Option<u32>
FirstOneAtOrAfter(mask, n) ==
    IF mask \cap (n .. (usize_BITS - 1)) = {} THEN None
    ELSE Some(Min(mask \cap (n .. (usize_BITS - 1))))

\* C25: first_one_after_at(mask, n) is the first one at-or-after position n: for
\* every mask and every position n it returns Some(p) where p is the lowest bit
\* position p >= n whose bit is set in mask, and None when mask has no set bit
\* at a position >= n
C25_FirstOneAtOrAfter ==
    fn_pc = "done" => fn_out = FirstOneAtOrAfter(fn_in[1], fn_in[2])

\* C26: for every request size r and every block size b that is a multiple of
\* 32, if the first level of map_block_size(b) is greater than the first level
\* of map_request_size(r), then b >= r
C26_HigherFirstLevelCovers ==
    (/\ fn_pc = "done"
     /\ ~fn_out.request.panic
     /\ ~fn_out.block.panic
     /\ fn_out.block.first_level > fn_out.request.first_level) => fn_in[2] >= fn_in[1]

\* the lowest size of the class c: 2^(f + 5) + s * 2^f
LowerBoundary(c) ==
    WordAdd({c.first_level + SECOND_LEVEL_INDEX},
            {i + c.first_level : i \in c.second_level}, 2 * usize_BITS).v

\* the class that follows (f, s): (f, s + 1) when s + 1 < 32, (f + 1, 0) when
\* s = 31
IsNextClass(c, next) ==
    /\ WordLess(c.second_level, Bits(SECOND_LEVEL_COUNT - 1))
           => next = Class(c.first_level, WordAdd(c.second_level, {0}, U32_BITS).v)
    /\ c.second_level = Bits(SECOND_LEVEL_COUNT - 1)
           => next = Class(c.first_level + 1, {})

CeilingClass(size, request, block) ==
    /\ ~request.panic
    /\ ~block.panic
    /\ IF size = LowerBoundary(request) THEN block = request
       ELSE IsNextClass(request, block)

SecondLevelInRange(c) ==
    ~c.panic /\ WordLess(c.second_level, Bits(SECOND_LEVEL_COUNT))

\* the amounts of the shifts 1 << last_bit, 1 << first_level and
\* 1 << (first_level + 5) made for size, of class c, are below the word width
ShiftsInWidth(size, c) ==
    /\ usize_BITS - trailing_zeros(size) < usize_BITS
    /\ c.first_level < usize_BITS
    /\ c.first_level + SECOND_LEVEL_INDEX < usize_BITS

\* C28: for every size > 0 the second-level index returned by map_request_size
\* and by map_block_size lies in 0..31, and the shifts they and
\* return_block_no_merge perform (1 << last_bit, 1 << first_level,
\* 1 << (first_level + 5)) stay below the word width
C28_ClassIndicesInRange ==
    fn_pc = "done" =>
        /\ SecondLevelInRange(fn_out.request)
        /\ SecondLevelInRange(fn_out.request_block)
        /\ ShiftsInWidth(Bits(fn_in[1]), fn_out.request)

\* the block served is at most size / 32 bytes larger than the request
WasteBounded(size, served) ==
    WordLeq(served, WordAdd(Bits(size), Bits(size \div (2 ^ SECOND_LEVEL_INDEX)),
                            usize_BITS + 1).v)

\* C29: for every successful allocate(size), the size of the served block minus
\* the requested size is at most size / 32 (integer division)
C29_BoundedFragmentation ==
    (last.op = "allocate" /\ last.result = "Some") => WasteBounded(last.arg, last.size)

\* allocate has served a block larger than the request
C29_ServedRounded ==
    /\ last.op = "allocate"
    /\ last.result = "Some"
    /\ WordLess(Bits(last.arg), last.size)

\* the block h is in t the block it was in t0: same offset, size, pool, free
\* flag and physical neighbours
BlockKept(t0, t, h) ==
    /\ t.header_pool[h].base_offset = t0.header_pool[h].base_offset
    /\ t.header_pool[h].pool = t0.header_pool[h].pool
    /\ get_size(t.header_pool[h]) = get_size(t0.header_pool[h])
    /\ is_free_block(t.header_pool[h]) = is_free_block(t0.header_pool[h])
    /\ t.header_pool[h].prev_physical = t0.header_pool[h].prev_physical
    /\ t.header_pool[h].next_physical = t0.header_pool[h].next_physical

\* x is in t the one block of the page just registered with the given size, at
\* the head of the list of the class c
PageBlock(t0, t, x, size, c) ==
    /\ is_free_block(t.header_pool[x])
    /\ t.header_pool[x].base_offset = {}
    /\ get_size(t.header_pool[x]) = size
    /\ t.header_pool[x].pool = Len(t0.page_pool) + 1
    /\ t.header_pool[x].prev_physical = NULL
    /\ t.header_pool[x].next_physical = NULL
    /\ ~c.panic
    /\ HasFirstLevel(t, c.first_level)
    /\ WordLess(c.second_level, Bits(SECOND_LEVEL_COUNT))
    /\ t.segregated_lists[c.first_level].list_headers[Val(c.second_level)] = x

PageAdded(t0, t, size, before, after, live) ==
    \/ t.panic
    \/ /\ t.page_pool = Append(t0.page_pool, size)
       /\ \E x \in after \ before :
            /\ after = before \cup {x}
            /\ PageBlock(t0, t, x, size, map_block_size(size))
       /\ \A h \in before : BlockKept(t0, t, h)
       /\ \A h \in live : t.header_pool[h] = t0.header_pool[h]

\* C30: new_page(page, size) adds exactly one block: it is free, has base_offset
\* 0, size `size`, pool the new page and no previous or next physical
\* neighbour, and is at the head of the list of class map_block_size(size);
\* page_pool grows by one; every pre-existing block, live allocation and
\* physical list is unchanged
C30_NewPageAddsOneBlock ==
    \A size \in PageSizes32 :
        PageAdded(Self, new_page(Self, Bits(size)), Bits(size),
                  Blocks, BlocksIn(new_page(Self, Bits(size))), handles)

\* new_page has put the block of a page at the head of a list that held a block
\* already, while an allocation was live
C30_PageBesideLive ==
    /\ last.op = "new_page"
    /\ last.result = "ok"
    /\ handles # {}
    /\ \E x \in FreeBlocks :
         /\ header_pool[x].pool = Len(page_pool)
         /\ is_first_free_block(header_pool[x])
         /\ header_pool[x].next_free # NULL

\* the head pointers of the free lists: the header free list and the
\* segregated free lists
FreeListSlots ==
    {HeaderFreeListSlot} \cup
    {ListHeadSlot(c[1], c[2]) :
        c \in (DOMAIN segregated_lists) \X (0 .. (SECOND_LEVEL_COUNT - 1))}

\* the member h of the list whose head pointer is slot is linked as a member of
\* that list
LinkedIn(slot, h, members) ==
    /\ header_pool[h].prev_free.kind # "null"
    /\ Deref(Self, header_pool[h].prev_free) = h
    /\ IF h = Deref(Self, slot) THEN header_pool[h].prev_free = slot
       ELSE /\ header_pool[h].prev_free.kind = "next_free"
            /\ header_pool[h].prev_free.a \in members
    /\ header_pool[h].next_free # NULL
           => header_pool[header_pool[h].next_free].prev_free = NextFreeSlot(h)
    /\ is_first_free_block(header_pool[h]) <=> h = Deref(Self, slot)

ListLinked(slot, members) == \A h \in members : LinkedIn(slot, h, members)

\* C31: for every segregated free list and for the header free list, the
\* pointer slot referenced by h.prev_free of each member h points to h (the
\* list head slot for the first member, the predecessor's next_free otherwise);
\* if h.next_free is non-null then that header's prev_free refers to h; and the
\* first-free flag is set on exactly the first member of each list
C31_FreeListsLinked ==
    \A slot \in FreeListSlots : ListLinked(slot, FreeChain(Deref(Self, slot), {}))

\* free has returned with two blocks in one segregated free list and headers in
\* the header free list
C31_ListsOfSeveral ==
    /\ last.op = "free"
    /\ last.result = "ok"
    /\ header_free_list # NULL
    /\ header_pool[header_free_list].next_free # NULL
    /\ \E head \in ListHeads : header_pool[head].next_free # NULL

\* in t the header h is the first member of the list whose head pointer is
\* slot and whose members were, in t0, the headers of members
InsertedAtHead(t0, t, h, slot, members) ==
    /\ Deref(t, slot) = h
    /\ t.header_pool[h] =
           [t0.header_pool[h] EXCEPT
               !.next_free = Deref(t0, slot),
               !.prev_free = slot,
               !.size_and_flags = @ \cup FIRST_FREE_BLOCK_FLAG]
    /\ Deref(t0, slot) # NULL =>
           t.header_pool[Deref(t0, slot)] =
               [t0.header_pool[Deref(t0, slot)] EXCEPT
                   !.prev_free = NextFreeSlot(h),
                   !.size_and_flags = @ \ FIRST_FREE_BLOCK_FLAG]
    /\ \A m \in members \ {Deref(t0, slot)} : t.header_pool[m] = t0.header_pool[m]

\* C32: insert_to_free_list_head(h, head) on a valid list not containing h
\* makes h the first member: afterwards the head slot points to h, h.prev_free
\* is the head slot, h.next_free is the former first member (null if the list
\* was empty), h has the first-free flag set, the former first member has it
\* cleared and its prev_free refers to h, and all other members keep their
\* order; no field of h other than the free-list pointers and the first-free
\* flag changes
C32_InsertMakesFirst ==
    \A slot \in FreeListSlots : \A h \in handles :
        InsertedAtHead(Self, insert_to_free_list_head(Self, h, slot), h, slot,
                       FreeChain(Deref(Self, slot), {}))

\* free has put the header of an absorbed block at the head of the header free
\* list, which held a header already
C32_RecycledBeforeOthers ==
    /\ last.op = "free"
    /\ last.result = "ok"
    /\ header_free_list # NULL
    /\ header_pool[header_free_list].pool # NULL
    /\ header_pool[header_free_list].next_free # NULL
    /\ header_pool[header_pool[header_free_list].next_free].prev_free
           = NextFreeSlot(header_free_list)

\* in t the list whose head pointer is slot holds the headers of members but h,
\* in the order they had in t0, linked as a list
RemovedFrom(t0, t, h, slot, members, remaining) ==
    /\ t.header_pool[h] = t0.header_pool[h]
    /\ remaining = members \ {h}
    /\ Deref(t, slot) = NULL <=> members = {h}
    /\ \A m \in remaining :
         /\ t.header_pool[m].next_free =
                IF t0.header_pool[m].next_free = h THEN t0.header_pool[h].next_free
                ELSE t0.header_pool[m].next_free
         /\ t.header_pool[m].prev_free.kind # "null"
         /\ Deref(t, t.header_pool[m].prev_free) = m
         /\ is_first_free_block(t.header_pool[m]) <=> m = Deref(t, slot)
         /\ m = Deref(t, slot) => t.header_pool[m].prev_free = slot

RemovesExactly(t0, t, h, slot, members) ==
    RemovedFrom(t0, t, h, slot, members, FreeChainIn(t, Deref(t, slot), {}))

\* C33: remove_from_free_list(h) on a valid list containing h, whether h is the
\* first, a middle or the last member, removes exactly h: the remaining members
\* keep their relative order and form a valid list, the new first member (if
\* any) has prev_free equal to the head slot and the first-free flag set, the
\* head slot is null iff h was the only member, and no field of h itself is
\* modified
C33_RemoveTakesOne ==
    \A slot \in FreeListSlots :
        \A h \in FreeChain(Deref(Self, slot), {}) :
            RemovesExactly(Self, remove_from_free_list(Self, h), h, slot,
                           FreeChain(Deref(Self, slot), {}))

\* new_page has taken the first header of the header free list, and the header
\* that followed it is now the first
C33_NextHeaderFirst ==
    /\ last.op = "new_page"
    /\ last.result = "ok"
    /\ Len(page_pool) >= 2
    /\ header_free_list # NULL
    /\ header_pool[header_free_list].prev_free = HeaderFreeListSlot
    /\ is_first_free_block(header_pool[header_free_list])

\* the number of insert/remove cycles made on a list
MaxCycles == 3

\* header.insert_to_free_list_head(head); header.remove_from_free_list()
InsertRemove(t, h, slot) ==
    remove_from_free_list(insert_to_free_list_head(t, h, slot), h)

\* the list whose head pointer is slot is in t what it was in t0
ListRestored(t0, t, slot, members) ==
    /\ Deref(t, slot) = Deref(t0, slot)
    /\ \A m \in members : t.header_pool[m] = t0.header_pool[m]

\* n more cycles with the header h, each leaving the list as it was in t0
RECURSIVE CyclesRestore(_, _, _, _, _, _)
CyclesRestore(t0, t, h, slot, members, n) ==
    \/ n = 0
    \/ /\ ListRestored(t0, InsertRemove(t, h, slot), slot, members)
       /\ CyclesRestore(t0, InsertRemove(t, h, slot), h, slot, members, n - 1)

\* C34: for any valid free list L and header h not in L,
\* insert_to_free_list_head(h) immediately followed by remove_from_free_list(h)
\* restores the head slot and the next_free, prev_free and first-free flag of
\* every member of L to their prior values; repeated any number of times on an
\* empty list, the list is empty after each cycle
C34_InsertRemoveRoundTrip ==
    \A slot \in FreeListSlots : \A h \in handles :
        CyclesRestore(Self, Self, h, slot, FreeChain(Deref(Self, slot), {}), MaxCycles)

\* allocate has taken the block of the page registered last, the block
\* new_page had inserted in an empty list, and the list is empty again
C34_PageBlockTaken ==
    /\ last.op = "allocate"
    /\ last.result = "Some"
    /\ header_pool[last.header].pool = Len(page_pool)
    /\ header_pool[last.header].prev_physical = NULL
    /\ header_pool[last.header].prev_free.kind = "list_headers"
    /\ Deref(Self, header_pool[last.header].prev_free) = NULL

\* the sizes given to set_size run over the multiples of 4 up to 4 * MaxQuads,
\* the largest multiple of 4 of the word and the sizes of the headers in use
MaxQuads == 8
SizeWords ==
    {Bits(4 * k) : k \in 0 .. MaxQuads} \cup {BLOCK_SIZE_MASK} \cup
    {get_size(header_pool[h]) : h \in handles}

\* the header after is the header before but for its size_and_flags word
SameButWord(before, after) ==
    after = [before EXCEPT !.size_and_flags = after.size_and_flags]

\* the size of the header and one of its flags are what they were
SizeKept(before, after) == get_size(after) = get_size(before)
FreeFlagKept(before, after) == is_free_block(after) <=> is_free_block(before)
FirstFlagKept(before, after) ==
    is_first_free_block(after) <=> is_first_free_block(before)

MaxCalls == 2
MaxSignals == 2

\* the allocator takes no part in the steps of the backend
TlsfIdle ==
    UNCHANGED <<usize_BITS, overflow_checks, tlsf_vars, handles, last, history,
                peak, panicked, fn_in, fn_out, fn_pc>>

channel_vars == <<next_id, available_windows, pushed, returned>>
surface_vars == <<client_api_count, suspended_state, has_surface, guards,
                  suspend_returned>>

\* Mutex::lock by the thread t, and the drop of its guard
lock(o, m, t) == [o EXCEPT ![m] = {t}]
unlock(o, m) == [o EXCEPT ![m] = {}]

\* Condvar::wait up to the wakeup, and Condvar::notify_all
wait(w, c, t) == [w EXCEPT ![c] = @ \cup {t}]
\* notify_all as it would be if it woke nobody
notify_nobody(w, c) == w
notify_all(w, c) == [w EXCEPT ![c] = {}]

\* the thread t goes on with the statement at label
Goto(t, label) == pc' = [pc EXCEPT ![t] = label]

\* the thread t begins a call
Begin(t, label, bound) ==
    /\ pc[t] = "idle"
    /\ calls[t] < bound
    /\ calls' = [calls EXCEPT ![t] = @ + 1]
    /\ Goto(t, label)

\* the thread t takes the mutex m at the statement at, and goes on at label
Lock(t, at, m, label) ==
    /\ pc[t] = at
    /\ owner[m] = {}
    /\ owner' = lock(owner, m, t)
    /\ Goto(t, label)
    /\ UNCHANGED <<quit_requested, events, sent, channel_vars, surface_vars,
                   waiting, local, calls>>
    /\ TlsfIdle

\* the thread t, notified of the condvar c, takes the mutex m again
Wake(t, at, c, m, label) ==
    /\ t \notin waiting[c]
    /\ Lock(t, at, m, label)

\* Condvar::wait may return without a notification
SpuriousWakeup(t) ==
    /\ \E c \in Condvars :
         /\ t \in waiting[c]
         /\ waiting' = [waiting EXCEPT ![c] = @ \ {t}]
    /\ UNCHANGED <<quit_requested, events, sent, channel_vars, surface_vars,
                   owner, pc, local, calls>>
    /\ TlsfIdle

\* AgnajiEvent::CreateWindow { id, .. } and AgnajiEvent::Quit
CreateWindowEvent(id) == [type |-> "CreateWindow", id |-> id]
QuitEvent == [type |-> "Quit", id |-> 0]

\* WinitBackend::push_event by the thread t, which goes on at label:
\* send_event fails once the event loop has exited, and the unwrap panics; a
\* platform whose proxy still accepts the event queues it for nobody
push_event(t, event, label) ==
    \/ /\ events' = Append(events, event)
       /\ sent' = Append(sent, event)
       /\ Goto(t, label)
    \/ /\ pc[EventLoop] = "exited"
       /\ Goto(t, "panicked")
       /\ UNCHANGED <<events, sent>>

\* the compare_exchange as it would be if it were a plain store of true
quit_store(current) == [ok |-> TRUE, value |-> TRUE]

\* WinitBackend::quit: the compare_exchange on quit_requested
quit_compare_exchange(current) ==
    IF current = FALSE THEN [ok |-> TRUE, value |-> TRUE]
    ELSE [ok |-> FALSE, value |-> current]

QuitCall(t) ==
    /\ Begin(t, "quit", MaxCalls)
    /\ UNCHANGED <<quit_requested, events, sent, channel_vars, surface_vars,
                   owner, waiting, local>>
    /\ TlsfIdle

QuitCompareExchange(t) ==
    /\ pc[t] = "quit"
    /\ quit_requested' = quit_compare_exchange(quit_requested).value
    /\ IF quit_compare_exchange(quit_requested).ok
       THEN Goto(t, "quit_push_event")
       ELSE Goto(t, "idle")
    /\ UNCHANGED <<events, sent, channel_vars, surface_vars, owner, waiting,
                   local, calls>>
    /\ TlsfIdle

QuitPushEvent(t) ==
    /\ pc[t] = "quit_push_event"
    /\ push_event(t, QuitEvent, "idle")
    /\ UNCHANGED <<quit_requested, channel_vars, surface_vars, owner, waiting,
                   local, calls>>
    /\ TlsfIdle

\* WinitBackend::create_window: allocate_id, push_event, wait_ready
CreateWindowCall(t) ==
    /\ Begin(t, "allocate_id", MaxCalls)
    /\ local' = [local EXCEPT ![t] = NoLocals]
    /\ UNCHANGED <<quit_requested, events, sent, channel_vars, surface_vars,
                   owner, waiting>>
    /\ TlsfIdle

AllocateIdLock(t) == Lock(t, "allocate_id", GuardedMutex, "allocate_id_locked")

\* WindowChannel::allocate_id under the lock
allocate_id(next) == [id |-> next, next_id |-> next + 1]

AllocateId(t) ==
    /\ pc[t] = "allocate_id_locked"
    /\ local' = [local EXCEPT ![t].id = allocate_id(next_id).id]
    /\ next_id' = allocate_id(next_id).next_id
    /\ owner' = unlock(owner, GuardedMutex)
    /\ Goto(t, "create_window_push_event")
    /\ UNCHANGED <<quit_requested, events, sent, available_windows, pushed,
                   returned, surface_vars, waiting, calls>>
    /\ TlsfIdle

CreateWindowPushEvent(t) ==
    /\ pc[t] = "create_window_push_event"
    /\ push_event(t, CreateWindowEvent(local[t].id), "wait_ready")
    /\ UNCHANGED <<quit_requested, channel_vars, surface_vars, owner, waiting,
                   local, calls>>
    /\ TlsfIdle

WaitReadyLock(t) == Lock(t, "wait_ready", GuardedMutex, "wait_ready_loop")

\* the search as it would be if it took the first window whatever its slot_id
found_first(windows, id) == IF Len(windows) > 0 THEN 1 ELSE 0

\* the search of wait_ready: the first index whose slot_id is id, 0 for None
found(windows, id) ==
    IF \E index \in 1 .. Len(windows) : windows[index][1] = id
    THEN Min({index \in 1 .. Len(windows) : windows[index][1] = id})
    ELSE 0

\* Vec::swap_remove: the last element takes the place of the removed one
swap_remove(windows, index) ==
    [i \in 1 .. (Len(windows) - 1) |->
        IF i = index THEN windows[Len(windows)] ELSE windows[i]]

\* one turn of the loop of WindowChannel::wait_ready, the lock held
WaitReadyLoop(t) ==
    /\ pc[t] = "wait_ready_loop"
    /\ LET index == found(available_windows, local[t].id)
       IN  IF index # 0
           THEN /\ local' = [local EXCEPT ![t].result = available_windows[index][2]]
                /\ returned' = returned \cup
                       {[thread |-> t, id |-> local[t].id,
                         result |-> available_windows[index][2]]}
                /\ available_windows' = swap_remove(available_windows, index)
                /\ owner' = unlock(owner, GuardedMutex)
                /\ Goto(t, "idle")
                /\ UNCHANGED waiting
           ELSE /\ owner' = unlock(owner, GuardedMutex)
                /\ waiting' = wait(waiting, "condvar", t)
                /\ Goto(t, "wait_ready_wait")
                /\ UNCHANGED <<local, returned, available_windows>>
    /\ UNCHANGED <<quit_requested, events, sent, next_id, pushed, surface_vars,
                   calls>>
    /\ TlsfIdle

WaitReadyWake(t) ==
    Wake(t, "wait_ready_wait", "condvar", GuardedMutex, "wait_ready_loop")

\* the event loop takes a CreateWindow event and builds the window: the
\* result is Ok (a window, numbered in the order of building) or Err (the
\* negative of the number)
HandleCreateWindow ==
    /\ pc[EventLoop] = "idle"
    /\ events # <<>>
    /\ Head(events).type = "CreateWindow"
    /\ events' = Tail(events)
    /\ \E ok \in BOOLEAN :
         local' = [local EXCEPT ![EventLoop] =
                      [NoLocals EXCEPT !.id = Head(events).id,
                                       !.result = IF ok THEN Len(pushed) + 1
                                                  ELSE 0 - (Len(pushed) + 1)]]
    /\ Goto(EventLoop, "push")
    /\ UNCHANGED <<quit_requested, sent, channel_vars, surface_vars, owner,
                   waiting, calls>>
    /\ TlsfIdle

PushLock == Lock(EventLoop, "push", GuardedMutex, "push_locked")

\* WindowChannel::push under the lock
Push ==
    /\ pc[EventLoop] = "push_locked"
    /\ available_windows' =
           Append(available_windows, <<local[EventLoop].id, local[EventLoop].result>>)
    /\ pushed' = Append(pushed, <<local[EventLoop].id, local[EventLoop].result>>)
    /\ owner' = unlock(owner, GuardedMutex)
    /\ Goto(EventLoop, "push_notify_all")
    /\ UNCHANGED <<quit_requested, events, sent, next_id, returned, surface_vars,
                   waiting, local, calls>>
    /\ TlsfIdle

PushNotifyAll ==
    /\ pc[EventLoop] = "push_notify_all"
    /\ waiting' = notify_all(waiting, "condvar")
    /\ Goto(EventLoop, "idle")
    /\ UNCHANGED <<quit_requested, events, sent, channel_vars, surface_vars,
                   owner, local, calls>>
    /\ TlsfIdle

\* the event loop takes the Quit event: ControlFlow::ExitWithCode(0)
HandleQuit ==
    /\ pc[EventLoop] = "idle"
    /\ events # <<>>
    /\ Head(events).type = "Quit"
    /\ events' = Tail(events)
    /\ Goto(EventLoop, "exited")
    /\ UNCHANGED <<quit_requested, sent, channel_vars, surface_vars, owner,
                   waiting, local, calls>>
    /\ TlsfIdle

\* the state after worker::run has made the backend; the allocator stays as made
InitWinit ==
    /\ InitWith({64}, {1024})
    /\ overflow_checks = TRUE
    /\ fn_in = <<>>
    /\ fn_out = <<>>
    /\ fn_pc = "off"

ClientChannel(t) ==
    \/ QuitCall(t)
    \/ QuitCompareExchange(t)
    \/ QuitPushEvent(t)
    \/ CreateWindowCall(t)
    \/ AllocateIdLock(t)
    \/ AllocateId(t)
    \/ CreateWindowPushEvent(t)
    \/ WaitReadyLock(t)
    \/ WaitReadyLoop(t)
    \/ WaitReadyWake(t)

EventLoopChannel ==
    \/ HandleCreateWindow
    \/ PushLock
    \/ Push
    \/ PushNotifyAll
    \/ HandleQuit

NextChannel ==
    \/ \E t \in Clients : ClientChannel(t)
    \/ \E t \in Clients : SpuriousWakeup(t)
    \/ EventLoopChannel

SpecChannel == InitWinit /\ [][NextChannel]_vars

\* the ids allocate_id has returned: those of the requests sent, and those of
\* the threads between allocate_id and push_event
SentRequests == {k \in 1 .. Len(sent) : sent[k].type = "CreateWindow"}
Requesting == {t \in Clients : pc[t] = "create_window_push_event"}
IdsDistinct ==
    /\ \A j \in SentRequests : \A k \in SentRequests :
           sent[j].id = sent[k].id => j = k
    /\ \A t \in Requesting : \A k \in SentRequests : sent[k].id # local[t].id
    /\ \A t \in Requesting : \A u \in Requesting :
           local[t].id = local[u].id => t = u

\* what wait_ready returned was pushed with the id it was called with
ReturnedAsPushed ==
    \A r \in returned :
        \E k \in 1 .. Len(pushed) : pushed[k] = <<r.id, r.result>>

\* a pushed result is either still in available_windows, once, or was
\* returned by one call of wait_ready
RemovedOnce ==
    \A k \in 1 .. Len(pushed) :
        Cardinality({i \in 1 .. Len(available_windows) :
                        available_windows[i][2] = pushed[k][2]})
        + Cardinality({r \in returned : r.result = pushed[k][2]}) = 1

\* C37: allocate_id never returns the same id to two callers, wait_ready(id)
\* returns only the result that was pushed with that same id, and each pushed
\* result is removed from available_windows by exactly one wait_ready call
C37_RequestsMatchedById == IdsDistinct /\ ReturnedAsPushed /\ RemovedOnce

\* two threads have their windows, the request allocated second served first
C37_TwoServedOutOfOrder ==
    /\ Len(pushed) >= 2
    /\ pushed[1][1] > pushed[2][1]
    /\ \E r \in returned : \E q \in returned :
         /\ r.thread # q.thread
         /\ <<r.id, r.result>> = pushed[1]
         /\ <<q.id, q.result>> = pushed[2]

\* the Quit events sent so far
QuitsSent == Cardinality({k \in 1 .. Len(sent) : sent[k].type = "Quit"})

\* the threads that have won the compare-exchange and not yet sent the event
QuitWinners == {t \in Clients : pc[t] = "quit_push_event"}

\* C39: however many threads call quit and however often, one Quit event is
\* submitted to the event loop: the call that wins the compare-exchange on
\* quit_requested sends it, every other call is inhibited
C39_OneQuitEvent ==
    /\ QuitsSent + Cardinality(QuitWinners) = (IF quit_requested THEN 1 ELSE 0)
    /\ QuitsSent <= 1

\* every thread has made all its calls, all of them quit, and one event went out
C39_AllCallsQuit ==
    /\ \A t \in Clients : calls[t] = MaxCalls /\ pc[t] = "idle"
    /\ sent = <<QuitEvent>>
    /\ quit_requested

\* Scheduling: a thread that can take a step takes one eventually, and a
\* thread that finds a mutex free again and again gets it eventually.  No
\* thread need begin a call, and no wakeup without notification need happen.
ClientRuns(t) ==
    \/ AllocateId(t)
    \/ CreateWindowPushEvent(t)
    \/ WaitReadyLoop(t)

ClientLocks(t) ==
    \/ AllocateIdLock(t)
    \/ WaitReadyLock(t)
    \/ WaitReadyWake(t)

EventLoopRuns ==
    \/ HandleCreateWindow
    \/ Push
    \/ PushNotifyAll

FairWindows ==
    /\ \A t \in Clients : WF_vars(ClientRuns(t))
    /\ \A t \in Clients : SF_vars(ClientLocks(t))
    /\ WF_vars(EventLoopRuns)
    /\ SF_vars(PushLock)

\* the threads that create windows, and the event loop that serves them
NextWindows ==
    \/ \E t \in Clients : CreateWindowCall(t)
    \/ \E t \in Clients : ClientRuns(t)
    \/ \E t \in Clients : ClientLocks(t)
    \/ \E t \in Clients : SpuriousWakeup(t)
    \/ EventLoopRuns
    \/ PushLock

SpecWindowsFair == InitWinit /\ [][NextWindows]_vars /\ FairWindows

\* the thread t is in wait_ready(id); the event loop has pushed a result for
\* id; wait_ready(id) has returned to t
InWaitReady(t, id) ==
    /\ pc[t] \in {"wait_ready", "wait_ready_loop", "wait_ready_wait"}
    /\ local[t].id = id
IsPushed(id) == \E k \in 1 .. Len(pushed) : pushed[k][1] = id
HasReturned(t, id) == \E r \in returned : r.thread = t /\ r.id = id

\* C38: if the event loop pushes a result for request id i, then a thread
\* calling wait_ready(i) eventually returns, whether the push happens before
\* the call, while the thread is checking the list, or while it is blocked on
\* the condvar
C38_NoLostWakeup ==
    \A t \in Clients :
        (InWaitReady(t, local[t].id) /\ IsPushed(local[t].id))
            ~> (pc[t] = "idle" /\ HasReturned(t, local[t].id))

\* a thread that found no result and blocked on the condvar was notified, and
\* the result for its id is in available_windows
C38_WokenWithResult ==
    \E t \in Clients :
        /\ pc[t] = "wait_ready_wait"
        /\ t \notin waiting["condvar"]
        /\ pc[EventLoop] = "idle"
        /\ found(available_windows, local[t].id) # 0

(***************************************************************************)
(* The winit backend: suspend, resume and the surfaces of the windows      *)
(*                                                                         *)
(* Window::try_build_surface and SurfaceGuard::drop name the two functions *)
(* of the backend with_surface_count_guard_inc and dec_surface_count; the  *)
(* backend has them as with_client_api_guard_inc and dec_client_api_count, *)
(* which is what the calls are taken to reach.  The event loop of          *)
(* worker::run ignores Event::Suspended and Event::Resumed; here it calls  *)
(* event_loop_signal_suspended and event_loop_signal_resumed, in any       *)
(* order, as their documentation says the event loop does.                 *)
(***************************************************************************)
\* the closure try_build_surface hands to the backend, as it would be if it
\* built the surface whatever the suspended state
build_closure_always(suspended, ok) ==
    IF ok THEN [result |-> "Ok", inc |-> TRUE]
    ELSE [result |-> "BuildError", inc |-> FALSE]

\* the closure try_build_surface hands to the backend: ok is whether the
\* builder f succeeds
build_closure(suspended, ok) ==
    IF suspended THEN [result |-> "Suspended", inc |-> FALSE]
    ELSE IF ok THEN [result |-> "Ok", inc |-> TRUE]
    ELSE [result |-> "BuildError", inc |-> FALSE]

\* WinitBackend::event_loop_signal_suspended
SignalSuspendedCall ==
    /\ Begin(EventLoop, "signal_suspended", MaxSignals)
    /\ UNCHANGED <<quit_requested, events, sent, channel_vars, surface_vars,
                   owner, waiting, local>>
    /\ TlsfIdle

SignalSuspendedLock ==
    Lock(EventLoop, "signal_suspended", ClientApiCountMutex, "signal_suspended_store")

SignalSuspendedStore ==
    /\ pc[EventLoop] = "signal_suspended_store"
    /\ suspended_state' = TRUE
    /\ waiting' = notify_all(waiting, "suspended_condvar")
    /\ Goto(EventLoop, "signal_suspended_loop")
    /\ UNCHANGED <<quit_requested, events, sent, channel_vars, client_api_count,
                   has_surface, guards, suspend_returned, owner, local, calls>>
    /\ TlsfIdle

SignalSuspendedLoop ==
    /\ pc[EventLoop] = "signal_suspended_loop"
    /\ owner' = unlock(owner, ClientApiCountMutex)
    /\ IF client_api_count = 0
       THEN /\ suspend_returned' = TRUE
            /\ Goto(EventLoop, "idle")
            /\ UNCHANGED waiting
       ELSE /\ waiting' = wait(waiting, "loop_wait_condvar", EventLoop)
            /\ Goto(EventLoop, "signal_suspended_wait")
            /\ UNCHANGED suspend_returned
    /\ UNCHANGED <<quit_requested, events, sent, channel_vars, client_api_count,
                   suspended_state, has_surface, guards, local, calls>>
    /\ TlsfIdle

SignalSuspendedWake ==
    Wake(EventLoop, "signal_suspended_wait", "loop_wait_condvar",
         ClientApiCountMutex, "signal_suspended_loop")

\* WinitBackend::event_loop_signal_resumed
SignalResumedCall ==
    /\ Begin(EventLoop, "signal_resumed", MaxSignals)
    /\ suspend_returned' = FALSE
    /\ UNCHANGED <<quit_requested, events, sent, channel_vars, client_api_count,
                   suspended_state, has_surface, guards, owner, waiting, local>>
    /\ TlsfIdle

SignalResumedLock ==
    Lock(EventLoop, "signal_resumed", ClientApiCountMutex, "signal_resumed_store")

SignalResumedStore ==
    /\ pc[EventLoop] = "signal_resumed_store"
    /\ suspended_state' = FALSE
    /\ waiting' = notify_all(waiting, "suspended_condvar")
    /\ owner' = unlock(owner, ClientApiCountMutex)
    /\ Goto(EventLoop, "idle")
    /\ UNCHANGED <<quit_requested, events, sent, channel_vars, client_api_count,
                   has_surface, guards, suspend_returned, local, calls>>
    /\ TlsfIdle

\* Window::try_build_surface of the window w
TryBuildSurfaceCall(t, w) ==
    /\ Begin(t, "try_build_surface", MaxCalls)
    /\ local' = [local EXCEPT ![t] = [NoLocals EXCEPT !.window = w]]
    /\ UNCHANGED <<quit_requested, events, sent, channel_vars, surface_vars,
                   owner, waiting>>
    /\ TlsfIdle

TryBuildSurfaceLock(t) ==
    /\ local[t].window \in Windows
    /\ Lock(t, "try_build_surface", HasSurfaceMutex(local[t].window),
            "try_build_surface_check")

TryBuildSurfaceCheck(t) ==
    /\ pc[t] = "try_build_surface_check"
    /\ IF has_surface[local[t].window]
       THEN /\ local' = [local EXCEPT ![t].built = "SurfaceAlreadyExists"]
            /\ owner' = unlock(owner, HasSurfaceMutex(local[t].window))
            /\ Goto(t, "idle")
       ELSE /\ Goto(t, "with_client_api_guard_inc")
            /\ UNCHANGED <<local, owner>>
    /\ UNCHANGED <<quit_requested, events, sent, channel_vars, surface_vars,
                   waiting, calls>>
    /\ TlsfIdle

\* WinitBackend::with_client_api_guard_inc
WithClientApiGuardIncLock(t) ==
    Lock(t, "with_client_api_guard_inc", ClientApiCountMutex,
         "with_client_api_guard_inc_locked")

WithClientApiGuardInc(t) ==
    /\ pc[t] = "with_client_api_guard_inc_locked"
    /\ \E ok \in BOOLEAN :
         LET f == build_closure(suspended_state, ok)
         IN  /\ local' = [local EXCEPT ![t].suspended = suspended_state,
                                         ![t].built = f.result]
             /\ client_api_count' =
                    IF f.inc THEN client_api_count + 1 ELSE client_api_count
    /\ owner' = unlock(owner, ClientApiCountMutex)
    /\ Goto(t, "try_build_surface_result")
    /\ UNCHANGED <<quit_requested, events, sent, channel_vars, suspended_state,
                   has_surface, guards, suspend_returned, waiting, calls>>
    /\ TlsfIdle

TryBuildSurfaceResult(t) ==
    /\ pc[t] = "try_build_surface_result"
    /\ IF local[t].built = "Ok"
       THEN /\ has_surface' = [has_surface EXCEPT ![local[t].window] = TRUE]
            /\ guards' = [guards EXCEPT ![local[t].window] = @ \cup {t}]
       ELSE UNCHANGED <<has_surface, guards>>
    /\ owner' = unlock(owner, HasSurfaceMutex(local[t].window))
    /\ Goto(t, "idle")
    /\ UNCHANGED <<quit_requested, events, sent, channel_vars, client_api_count,
                   suspended_state, suspend_returned, waiting, local, calls>>
    /\ TlsfIdle

\* SurfaceGuard::drop of the guard of the window w
DropCall(t, w) ==
    /\ pc[t] = "idle"
    /\ t \in guards[w]
    /\ guards' = [guards EXCEPT ![w] = @ \ {t}]
    /\ local' = [local EXCEPT ![t] = [NoLocals EXCEPT !.window = w]]
    /\ Goto(t, "drop")
    /\ UNCHANGED <<quit_requested, events, sent, channel_vars, client_api_count,
                   suspended_state, has_surface, suspend_returned, owner,
                   waiting, calls>>
    /\ TlsfIdle

DropLock(t) ==
    /\ local[t].window \in Windows
    /\ Lock(t, "drop", HasSurfaceMutex(local[t].window), "drop_locked")

DropClear(t) ==
    /\ pc[t] = "drop_locked"
    /\ has_surface' = [has_surface EXCEPT ![local[t].window] = FALSE]
    /\ Goto(t, "dec_client_api_count")
    /\ UNCHANGED <<quit_requested, events, sent, channel_vars, client_api_count,
                   suspended_state, guards, suspend_returned, owner, waiting,
                   local, calls>>
    /\ TlsfIdle

\* WinitBackend::dec_client_api_count
DecClientApiCountLock(t) ==
    Lock(t, "dec_client_api_count", ClientApiCountMutex,
         "dec_client_api_count_locked")

\* *guard -= 1 on the u32: below 0 a checked build panics with the mutex
\* held, an unchecked one wraps to u32::MAX, which is written 0 - 1 here
DecClientApiCount(t) ==
    /\ pc[t] = "dec_client_api_count_locked"
    /\ IF client_api_count = 0 /\ overflow_checks
       THEN /\ Goto(t, "panicked")
            /\ UNCHANGED <<client_api_count, waiting, owner>>
       ELSE /\ client_api_count' = client_api_count - 1
            /\ waiting' = IF client_api_count' = 0
                          THEN notify_all(waiting, "loop_wait_condvar")
                          ELSE waiting
            /\ owner' = unlock(owner, ClientApiCountMutex)
            /\ Goto(t, "drop_unlock")
    /\ UNCHANGED <<quit_requested, events, sent, channel_vars, suspended_state,
                   has_surface, guards, suspend_returned, local, calls>>
    /\ TlsfIdle

DropUnlock(t) ==
    /\ pc[t] = "drop_unlock"
    /\ owner' = unlock(owner, HasSurfaceMutex(local[t].window))
    /\ Goto(t, "idle")
    /\ UNCHANGED <<quit_requested, events, sent, channel_vars, surface_vars,
                   waiting, local, calls>>
    /\ TlsfIdle

\* WinitBackend::wait_resumed
WaitResumedCall(t) ==
    /\ Begin(t, "wait_resumed", MaxCalls)
    /\ UNCHANGED <<quit_requested, events, sent, channel_vars, surface_vars,
                   owner, waiting, local>>
    /\ TlsfIdle

WaitResumedLock(t) ==
    Lock(t, "wait_resumed", ClientApiCountMutex, "wait_resumed_loop")

WaitResumedLoop(t) ==
    /\ pc[t] = "wait_resumed_loop"
    /\ owner' = unlock(owner, ClientApiCountMutex)
    /\ IF ~suspended_state
       THEN /\ Goto(t, "idle")
            /\ UNCHANGED waiting
       ELSE /\ waiting' = wait(waiting, "suspended_condvar", t)
            /\ Goto(t, "wait_resumed_wait")
    /\ UNCHANGED <<quit_requested, events, sent, channel_vars, surface_vars,
                   local, calls>>
    /\ TlsfIdle

WaitResumedWake(t) ==
    Wake(t, "wait_resumed_wait", "suspended_condvar", ClientApiCountMutex,
         "wait_resumed_loop")

ClientSurface(t) ==
    \/ \E w \in Windows : TryBuildSurfaceCall(t, w)
    \/ TryBuildSurfaceLock(t)
    \/ TryBuildSurfaceCheck(t)
    \/ WithClientApiGuardIncLock(t)
    \/ WithClientApiGuardInc(t)
    \/ TryBuildSurfaceResult(t)
    \/ \E w \in Windows : DropCall(t, w)
    \/ DropLock(t)
    \/ DropClear(t)
    \/ DecClientApiCountLock(t)
    \/ DecClientApiCount(t)
    \/ DropUnlock(t)
    \/ WaitResumedCall(t)
    \/ WaitResumedLock(t)
    \/ WaitResumedLoop(t)
    \/ WaitResumedWake(t)

EventLoopSuspend ==
    \/ SignalSuspendedCall
    \/ SignalSuspendedLock
    \/ SignalSuspendedStore
    \/ SignalSuspendedLoop
    \/ SignalSuspendedWake
    \/ SignalResumedCall
    \/ SignalResumedLock
    \/ SignalResumedStore

NextSuspend ==
    \/ \E t \in Clients : ClientSurface(t)
    \/ \E t \in Threads : SpuriousWakeup(t)
    \/ EventLoopSuspend

SpecSuspend == InitWinit /\ [][NextSuspend]_vars

\* C36: from the moment event_loop_signal_suspended returns until
\* event_loop_signal_resumed is called, client_api_count is 0: the suspend
\* call sets the suspended state and returns only once the count is 0, every
\* with_client_api_guard_inc call in that interval passes suspended = true to
\* its closure, and the surface builder, which refuses while suspended, never
\* increments the count
C36_NoClientApiWhileSuspended ==
    suspend_returned =>
        /\ client_api_count = 0
        /\ suspended_state
        /\ \A w \in Windows : guards[w] = {}
        /\ \A t \in Clients :
               pc[t] = "try_build_surface_result" => local[t].built # "Ok"

\* a surface was built and its guard dropped, event_loop_signal_suspended has
\* returned, and a builder that tried after the return was refused
C36_RefusedWhileSuspended ==
    /\ suspend_returned
    /\ \E t \in Clients :
         /\ pc[t] = "try_build_surface_result"
         /\ local[t].suspended
         /\ local[t].built = "Suspended"
    /\ \E t \in Clients : pc[t] = "idle" /\ calls[t] > 0 /\ local[t].window \in Windows
                           /\ local[t].built = "none"

====
